---- MODULE Spec2Model ----
(***************************************************************************)
(* A model of the execution core of scsir:                                 *)
(*   - FlexibleStruct (data_wrapper.rs): header + growable trailing array  *)
(*     in one raw allocation;                                              *)
(*   - bitfield_bound_check (command/mod.rs): the width-bound validator;   *)
(*   - Scsi::issue (scsi.rs), linux and windows variants, together with    *)
(*     the process_result shape every command implements;                  *)
(*   - a few command builders (sanitize, ata, read, mode_select,           *)
(*     read_defect_data, format_unit, security_protocol_out,               *)
(*     test_unit_ready) that validate, pack a CDB and dispatch;            *)
(*   - the byte layout of FlexibleStruct<Header, u32> on either byte       *)
(*     order.                                                              *)
(* Each component has its own specification over the shared variables.     *)
(***************************************************************************)
EXTENDS Integers, Sequences, FiniteSets, TLC

\* ------------------------------------------------------------------------
\* Bounds of the model
\* ------------------------------------------------------------------------
NumBodies == 2      \* distinct body values explored
NumElements == 2    \* distinct element values explored
MaxCap == 3         \* capacities above this are not explored

\* mem::size_of::<Body>() and mem::size_of::<Element>() of the instantiation
HeaderSize == 2
ElemSize == 4

\* body and element values, as their byte representations; every byte of
\* every value is different and nonzero
Bodies == {[j \in 1..HeaderSize |-> 10 * i + j] : i \in 1..NumBodies}
Elements == {[j \in 1..ElemSize |-> 100 + 10 * k + j] : k \in 1..NumElements}

VARIABLES
    \* FlexibleStruct<Body, Element>
    needsDrop,      \* mem::needs_drop::<Element>() of the instantiation
    length,         \* field length
    capacity,       \* field capacity
    mem,            \* the bytes of the allocation behind ptr
    alloc,          \* "live" | "freed": state of the backing allocation
    ret,            \* value returned by the last operation
    dropped,        \* teardowns run by the last operation, in order
    lastOp,         \* the operation that produced this state
    held,           \* elements handed to the record and not yet handed back
    lastBody,       \* the body given at construction or to the last set_body
    onlyPushed,     \* no pop/clear/set_length/clone since construction
    pushPop,        \* the push just made (and whether a pop followed at once)
    endian,         \* cfg(target_endian): "little" | "big"
    \* bitfield_bound_check!($num, $bit_count, $name)
    bcNum,          \* $num
    bcType,         \* size_of_val(&$num) * 8
    bcBits,         \* $bit_count
    bcRes,          \* the macro's value, or pending before it is evaluated
    \* Scsi::issue
    platform,       \* cfg(target_os): "linux" | "windows"
    cmd,            \* the Command (transfer unit) last issued
    out,            \* what the platform call and the device answered
    hdr,            \* the header handed to the platform call
    env,            \* the ResultData handed to process_result
    trace,          \* the steps process_result went through, in order
    outcome,        \* what issue returned
    calls,          \* platform passthrough calls made by the last request
    timeout,        \* field timeout of Scsi
    \* command builders
    san,            \* the SanitizeCommand under construction, if any
    req,            \* the builder call last made and the values it was given
    cdb,            \* the fields of the command buffer that was dispatched
    packed          \* the bytes of the command buffer that was dispatched

flexVars == <<needsDrop, length, capacity, mem, alloc, ret, dropped, lastOp,
              held, lastBody, onlyPushed, pushPop, endian>>

bcVars == <<bcNum, bcType, bcBits, bcRes>>

issueVars == <<platform, cmd, out, hdr, env, trace, outcome, calls, timeout>>

buildVars == <<san, req, cdb, packed>>

nonFlexVars == <<bcVars, issueVars, buildVars>>
nonBcVars == <<flexVars, issueVars, buildVars>>
nonIssueVars == <<flexVars, bcVars, buildVars>>
nonBuildVars == <<flexVars, bcVars>>

vars == <<flexVars, bcVars, issueVars, buildVars>>

\* ------------------------------------------------------------------------
\* Sequence helpers
\* ------------------------------------------------------------------------
RECURSIVE Reverse(_)
Reverse(s) == IF s = <<>> THEN <<>> ELSE Append(Reverse(Tail(s)), Head(s))

RECURSIVE Flatten(_)
Flatten(ss) == IF ss = <<>> THEN <<>> ELSE Head(ss) \o Flatten(Tail(ss))

Zeroes(n) == [i \in 1..n |-> 0]

\* ptr::write_unaligned(base + off, bytes): overwrite bytes at a byte offset
WriteAt(m, off, bytes) ==
    [i \in 1..Len(m) |->
        IF i > off /\ i <= off + Len(bytes) THEN bytes[i - off] ELSE m[i]]

\* ptr::read_unaligned(base + off) of n bytes
ReadAt(m, off, n) == [i \in 1..n |-> m[off + i]]

\* ------------------------------------------------------------------------
\* FlexibleStruct (data_wrapper.rs).  A record value is
\* [length, capacity, mem]; the operators below return the record after the
\* call (and, where the call returns something, the returned value).
\* ------------------------------------------------------------------------

\* with_body_capacity: alloc_zeroed(size_of Body + size_of Element * capacity)
\* then write the body at offset 0.
with_body_capacity(body, cap) ==
    [length |-> 0,
     capacity |-> cap,
     mem |-> WriteAt(Zeroes(HeaderSize + ElemSize * cap), 0, body)]

\* get_body_maybe_uninit: unaligned read of the body at offset 0
get_body(s) == ReadAt(s.mem, 0, HeaderSize)

\* set_body: unaligned write of the body at offset 0
set_body(s, value) == [s EXCEPT !.mem = WriteAt(s.mem, 0, value)]

\* get_element_maybe_uninit(index) for index < length
get_element(s, index) == ReadAt(s.mem, HeaderSize + ElemSize * index, ElemSize)

\* elements_as_slice: the length valid elements, in index order
elements_as_slice(s) == [i \in 1..s.length |-> get_element(s, i - 1)]

\* total_size that counts the whole allocation
total_size_capacity(s) == HeaderSize + ElemSize * s.capacity

\* total_size
total_size(s) == HeaderSize + ElemSize * s.length

\* as_bytes: the first total_size() bytes of the allocation
as_bytes(s) == SubSeq(s.mem, 1, total_size(s))

\* try_grow_to that reallocates but forgets `self.capacity = new_capacity`
try_grow_to_stale_capacity(s, new_capacity, fresh) ==
    IF new_capacity <= s.capacity
    THEN s
    ELSE [s EXCEPT
            !.mem = s.mem \o SubSeq(fresh, 1, ElemSize * (new_capacity - s.capacity))]

\* try_grow_to: realloc to the new size when new_capacity > capacity.  realloc
\* keeps the old bytes; the bytes it adds are uninitialised, fresh gives the
\* values they happen to hold.
try_grow_to(s, new_capacity, fresh) ==
    IF new_capacity <= s.capacity
    THEN s
    ELSE [s EXCEPT
            !.mem = s.mem \o SubSeq(fresh, 1, ElemSize * (new_capacity - s.capacity)),
            !.capacity = new_capacity]

\* the capacity push asks try_grow_to for
push_new_capacity(s) ==
    IF s.length + 1 > s.capacity THEN s.capacity * 2 + 1 ELSE s.capacity

\* push that offsets the target by length bytes instead of length elements
push_byte_offset(s, value, fresh) ==
    LET g == try_grow_to(s, push_new_capacity(s), fresh)
    IN [g EXCEPT
          !.mem = WriteAt(g.mem, HeaderSize + g.length, value),
          !.length = g.length + 1]

\* push: grow if full, write the element at index length, length += 1
push(s, value, fresh) ==
    LET g == try_grow_to(s, push_new_capacity(s), fresh)
    IN [g EXCEPT
          !.mem = WriteAt(g.mem, HeaderSize + ElemSize * g.length, value),
          !.length = g.length + 1]

\* pop that reads the slot past the last element (target computed before
\* the decrement)
pop_read_past_end(s) ==
    IF s.length = 0
    THEN [s |-> s, ret |-> <<"None">>]
    ELSE LET t == [s EXCEPT !.length = s.length - 1]
         IN [s |-> t,
             ret |-> <<"Some",
                       IF s.length < s.capacity THEN get_element(s, s.length)
                       ELSE Zeroes(ElemSize)>>]

\* pop that scrubs the element area when the record is empty
pop_scrub_on_empty(s) ==
    IF s.length = 0
    THEN [s |-> [s EXCEPT !.mem = WriteAt(s.mem, HeaderSize,
                                          Zeroes(ElemSize * s.capacity))],
          ret |-> <<"None">>]
    ELSE LET t == [s EXCEPT !.length = s.length - 1]
         IN [s |-> t, ret |-> <<"Some", get_element(t, t.length)>>]

\* pop: None on an empty record, otherwise length -= 1 and the element that
\* was last is read out and returned.
pop(s) ==
    IF s.length = 0
    THEN [s |-> s, ret |-> <<"None">>]
    ELSE LET t == [s EXCEPT !.length = s.length - 1]
         IN [s |-> t, ret |-> <<"Some", get_element(t, t.length)>>]

\* clear: `while self.pop().is_some() {}` when the element type has drop
\* glue (each popped value is torn down as the loop drops it), otherwise
\* length = 0.  log is the teardown log so far.
RECURSIVE clear_loop(_, _)
clear_loop(s, log) ==
    LET r == pop(s)
    IN IF r.ret[1] = "Some"
       THEN clear_loop(r.s, Append(log, <<"element", r.ret[2]>>))
       ELSE [s |-> r.s, dropped |-> log]

\* clear that ignores needs_drop and only resets the length
clear_forget(s, nd) ==
    [s |-> [s EXCEPT !.length = 0], dropped |-> <<>>]

clear(s, nd) ==
    IF nd
    THEN clear_loop(s, <<>>)
    ELSE [s |-> [s EXCEPT !.length = 0], dropped |-> <<>>]

\* set_length (unsafe, Element: Copy): grow to length, then length = length
set_length(s, n, fresh) ==
    [try_grow_to(s, n, fresh) EXCEPT !.length = n]

\* Clone::clone: with_body_capacity(get_body(), length), then push every
\* element in iteration (index) order.  No push can grow here.
RECURSIVE clone_push(_, _)
clone_push(dst, items) ==
    IF items = <<>> THEN dst
    ELSE clone_push(push(dst, Head(items), <<>>), Tail(items))

clone(s) ==
    clone_push(with_body_capacity(get_body(s), s.length), elements_as_slice(s))

\* drop that frees the allocation without clearing first
drop_no_clear(s, nd) ==
    [s |-> s,
     dropped |-> << <<"body", get_body(s)>>, <<"dealloc">> >>]

\* Drop::drop: clear(), then the body is read out and dropped, then dealloc.
drop(s, nd) ==
    LET c == clear(s, nd)
    IN [s |-> c.s,
        dropped |-> c.dropped \o << <<"body", get_body(c.s)>>, <<"dealloc">> >>]

\* ------------------------------------------------------------------------
\* bitfield_bound_check (command/mod.rs)
\* ------------------------------------------------------------------------
MaxNum == 260       \* values 0..MaxNum are checked
MaxBits == 9        \* bit counts 0..MaxBits are checked

RECURSIVE Pow2(_)
Pow2(n) == IF n = 0 THEN 1 ELSE 2 * Pow2(n - 1)

\* number of bits of the shortest binary numeral of n
RECURSIVE BitLen(_)
BitLen(n) == IF n = 0 THEN 0 ELSE 1 + BitLen(n \div 2)

\* $num.leading_zeros() for an unsigned $num of type_bits bits
leading_zeros(num, type_bits) == type_bits - BitLen(num)

\* 1u128.wrapping_shl($bit_count): the shift amount wraps at 128
wrapping_shl_1u128(bit_count) == Pow2(bit_count % 128)

\* the macro with `>=` in place of `>`
bitfield_bound_check_off_by_one(num, type_bits, bit_count) ==
    IF type_bits - leading_zeros(num, type_bits) >= bit_count
    THEN [kind |-> "ArgumentOutOfBounds",
          max |-> wrapping_shl_1u128(bit_count) - 1,
          given |-> num]
    ELSE [kind |-> "Ok"]

\* the macro: Err(ArgumentOutOfBounds(max, given)) when the bit length of
\* $num exceeds $bit_count, Ok(()) otherwise
bitfield_bound_check(num, type_bits, bit_count) ==
    IF type_bits - leading_zeros(num, type_bits) > bit_count
    THEN [kind |-> "ArgumentOutOfBounds",
          max |-> wrapping_shl_1u128(bit_count) - 1,
          given |-> num]
    ELSE [kind |-> "Ok"]

\* the unsigned types the macro is applied to, by width, that the explored
\* values fit in
BcInputs ==
    {<<n, t, b>> \in (0..MaxNum) \X {8, 16} \X (0..MaxBits) : n < Pow2(t)}

IdleBc ==
    /\ bcNum = 0
    /\ bcType = 8
    /\ bcBits = 0
    /\ bcRes = [kind |-> "pending"]

InitBc ==
    /\ \E i \in BcInputs :
          /\ bcNum = i[1]
          /\ bcType = i[2]
          /\ bcBits = i[3]
    /\ bcRes = [kind |-> "pending"]

\* the macro is evaluated
BoundCheck ==
    /\ bcRes.kind = "pending"
    /\ bcRes' = bitfield_bound_check(bcNum, bcType, bcBits)
    /\ UNCHANGED <<bcNum, bcType, bcBits>>
    /\ UNCHANGED nonBcVars

NextBc ==
    \/ BoundCheck

\* ------------------------------------------------------------------------
\* Scsi::issue (scsi.rs) and Command::process_result
\* ------------------------------------------------------------------------
MaxData == 8        \* the nonzero payload size explored, in bytes
SenseWritten == 18  \* the nonzero number of sense bytes a device writes

MAX_COMMAND_LENGTH == 16

\* size of the sense buffer each variant hands to the platform
MAX_SENSE_BUFFER_LENGTH == 32
WINDOWS_SENSE_LENGTH == 32

GOOD == 0
CHECK_CONDITION == 2

None == [kind |-> "none"]

DataDirections == {"None", "ToDevice", "FromDevice", "ToFromDevice", "Unknown"}

\* a Command as issue sees it: direction(), size_of_val(&command()),
\* data_size() and the natural size of the buffer data() returns
Commands ==
    {c \in [direction : DataDirections,
            cdb_len : {6, 16, 32},
            data_size : {0, MaxData},
            data_len : {0, MaxData}] :
        c.data_size <= c.data_len}

\* what comes back from the platform call: whether the call itself
\* succeeded, whether the platform wrote its output fields back into the
\* header (it does when the call succeeds; a failed call may have stopped
\* before), the SCSI status, the sense bytes written (and which bytes), and
\* the residual of the data transfer
Outs(c) ==
    {o \in [ok : BOOLEAN,
            written_back : BOOLEAN,
            status : {GOOD, CHECK_CONDITION},
            sense_written : {0, SenseWritten},
            sense : {"", "sense_a", "sense_b"},
            residual : {0, c.data_size \div 2, c.data_size}] :
        /\ (o.sense_written = 0) <=> (o.sense = "")
        /\ o.ok => o.written_back
        /\ ~o.written_back =>
              (o.status = GOOD /\ o.sense_written = 0 /\ o.residual = 0)}

\* ---- Duration and the timeout fields -----------------------------------
\* A number of up to 48 bits is a pair <<hi, lo>> standing for
\* hi * 2^16 + lo with lo < 2^16; it fits in a u32 when hi < 2^16.
U32_MAX == <<65535, 65535>>

\* Duration: whole seconds and the milliseconds of the sub-second part
Duration_from_millis(ms) ==
    [secs |-> <<0, ms \div 1000>>, subsec_millis |-> ms % 1000]

\* Duration::as_secs
as_secs(d) == d.secs

\* Duration::as_millis
as_millis(d) ==
    LET lo == d.secs[2] * 1000 + d.subsec_millis
    IN <<d.secs[1] * 1000 + lo \div 65536, lo % 65536>>

\* clamp that lets every value through
clamp_u32_none(w) == w

\* .clamp(u32::MIN as _, u32::MAX as _)
clamp_u32(w) == IF w[1] > 65535 THEN U32_MAX ELSE w

\* `as u32`
as_u32(w) == <<w[1] % 65536, w[2]>>

\* linux: the timeout field, in milliseconds
linux_timeout(t) == as_u32(clamp_u32(as_millis(t)))

\* windows: TimeOutValue, in seconds, `0 => 1`
windows_timeout(t) ==
    LET n == clamp_u32(as_secs(t))
    IN IF n = <<0, 0>> THEN <<0, 1>> ELSE as_u32(n)

SG_DEFAULT_TIMEOUT == 60000

\* the durations given to set_timeout
Durations ==
    {[secs |-> <<0, 0>>, subsec_millis |-> 0],
     [secs |-> <<0, 0>>, subsec_millis |-> 999],
     [secs |-> <<0, 1>>, subsec_millis |-> 500],
     [secs |-> <<65, 35127>>, subsec_millis |-> 295],
     [secs |-> <<65, 35127>>, subsec_millis |-> 296],
     [secs |-> <<131, 4719>>, subsec_millis |-> 0],
     [secs |-> <<65535, 65535>>, subsec_millis |-> 0],
     [secs |-> <<65536, 0>>, subsec_millis |-> 0],
     [secs |-> <<131072, 7>>, subsec_millis |-> 999]}

\* SenseData::parse(buffer, written): no record when nothing was written
SenseData_parse(buffer, written) ==
    IF written = 0 THEN <<"None">> ELSE <<"Some", buffer>>

\* ResultData::check_ioctl_error: the platform call itself failed
check_ioctl_error(e) ==
    IF e.ioctl_result # 0
    THEN [kind |-> "TransportError"]
    ELSE [kind |-> "Ok"]

\* ResultData::check_common_error: the device reported failure
check_common_error(e) ==
    IF e.status # GOOD \/ e.transfered_sense_length > 0
    THEN [kind |-> "DeviceError", status |-> e.status, sense |-> e.sense_buffer]
    ELSE [kind |-> "Ok"]

\* process_result that inspects the device status before the transport result
process_result_device_first(e) ==
    IF check_common_error(e).kind # "Ok"
    THEN [trace |-> <<"check_common_error">>, result |-> check_common_error(e)]
    ELSE IF check_ioctl_error(e).kind # "Ok"
    THEN [trace |-> <<"check_common_error", "check_ioctl_error">>,
          result |-> check_ioctl_error(e)]
    ELSE [trace |-> <<"check_common_error", "check_ioctl_error", "decode">>,
          result |-> [kind |-> "Ok", data |-> e.data]]

\* process_result that leaves out check_common_error
process_result_no_device_check(e) ==
    IF check_ioctl_error(e).kind # "Ok"
    THEN [trace |-> <<"check_ioctl_error">>, result |-> check_ioctl_error(e)]
    ELSE [trace |-> <<"check_ioctl_error", "decode">>,
          result |-> [kind |-> "Ok", data |-> e.data]]

\* Command::process_result, the shape every command gives it:
\*   result.check_ioctl_error()?; result.check_common_error()?; decode
process_result(e) ==
    IF check_ioctl_error(e).kind # "Ok"
    THEN [trace |-> <<"check_ioctl_error">>, result |-> check_ioctl_error(e)]
    ELSE IF check_common_error(e).kind # "Ok"
    THEN [trace |-> <<"check_ioctl_error", "check_common_error">>,
          result |-> check_common_error(e)]
    ELSE [trace |-> <<"check_ioctl_error", "check_common_error", "decode">>,
          result |-> [kind |-> "Ok", data |-> e.data]]

\* linux: the SgIoHeader built before ioctl(SG_IO)
linux_header(c, t) ==
    [interface_id |-> "S",
     data_direction |-> c.direction,
     command_length |-> c.cdb_len,
     data_length |-> c.data_size,
     data |-> IF c.data_size = 0 THEN "null" ELSE "buffer",
     command |-> "command_buffer",
     sense_buffer |-> "sense_buffer",
     max_sense_buffer_length |-> MAX_SENSE_BUFFER_LENGTH,
     timeout |-> linux_timeout(t),
     status |-> 0,
     sense_buffer_written |-> 0,
     residual_count |-> 0]

\* linux: the SgIoHeader after ioctl(SG_IO)
linux_header_after(h, o) ==
    IF o.written_back
    THEN [h EXCEPT !.status = o.status,
                   !.sense_buffer_written = o.sense_written,
                   !.residual_count = o.residual]
    ELSE h

\* the sense buffer after the call: zero-initialised, then what the device
\* wrote into it
sense_bytes(o) == IF o.written_back /\ o.sense_written > 0 THEN o.sense ELSE "zeroed"

\* linux: the ResultData built after ioctl(SG_IO)
linux_result_data_no_residual(h, o) ==
    [ioctl_result |-> IF o.ok THEN 0 ELSE -1,
     transfered_data_length |-> h.data_length,
     data |-> "buffer",
     transfered_sense_length |-> h.sense_buffer_written,
     sense_buffer |-> SenseData_parse(sense_bytes(o), h.sense_buffer_written),
     status |-> h.status]

\* linux: the ResultData built from the header after ioctl(SG_IO)
linux_result_data(h, o) ==
    [ioctl_result |-> IF o.ok THEN 0 ELSE -1,
     transfered_data_length |-> h.data_length - h.residual_count,
     data |-> "buffer",
     transfered_sense_length |-> h.sense_buffer_written,
     sense_buffer |-> SenseData_parse(sense_bytes(o), h.sense_buffer_written),
     status |-> h.status]

\* issue that makes the platform call again when the first one failed
issue_linux_retry(c, o, t) ==
    LET h == linux_header(c, t)
        e == linux_result_data(linux_header_after(h, o), o)
        r == process_result(e)
    IN IF o.ok
       THEN [hdr |-> h, env |-> e, trace |-> r.trace, outcome |-> r.result,
             calls |-> 1]
       ELSE [hdr |-> h, env |-> e, trace |-> r.trace \o r.trace,
             outcome |-> r.result, calls |-> 2]

\* Scsi::issue, cfg(target_os = "linux")
issue_linux(c, o, t) ==
    LET h == linux_header(c, t)
        e == linux_result_data(linux_header_after(h, o), o)
        r == process_result(e)
    IN [hdr |-> h, env |-> e, trace |-> r.trace, outcome |-> r.result, calls |-> 1]

\* windows: the SCSI_PASS_THROUGH_DIRECT built before DeviceIoControl
windows_header(c, t) ==
    [CdbLength |-> c.cdb_len,
     SenseInfoLength |-> WINDOWS_SENSE_LENGTH,
     TimeOutValue |-> windows_timeout(t),
     ScsiStatus |-> 0,
     DataIn |-> CASE c.direction = "None" -> "SCSI_IOCTL_DATA_UNSPECIFIED"
                  [] c.direction = "ToDevice" -> "SCSI_IOCTL_DATA_OUT"
                  [] c.direction = "FromDevice" -> "SCSI_IOCTL_DATA_IN"
                  [] c.direction = "ToFromDevice" -> "SCSI_IOCTL_DATA_BIDIRECTIONAL"
                  [] c.direction = "Unknown" -> "SCSI_IOCTL_DATA_UNSPECIFIED",
     DataTransferLength |-> c.data_size,
     data |-> "buffer",
     Cdb |-> "command_buffer"]

\* windows: the header after DeviceIoControl, which updates
\* DataTransferLength, SenseInfoLength and ScsiStatus when it writes back
windows_header_after(h, o) ==
    IF o.written_back
    THEN [h EXCEPT !.DataTransferLength = h.DataTransferLength - o.residual,
                   !.SenseInfoLength = o.sense_written,
                   !.ScsiStatus = o.status]
    ELSE h

\* windows: the ResultData built from the header after DeviceIoControl
windows_result_data(h, o) ==
    [ioctl_result |-> IF o.ok THEN 0 ELSE -1,
     transfered_data_length |-> h.DataTransferLength,
     data |-> "buffer",
     transfered_sense_length |-> h.SenseInfoLength,
     sense_buffer |-> SenseData_parse(sense_bytes(o), h.SenseInfoLength),
     status |-> h.ScsiStatus]

\* Scsi::issue, cfg(target_os = "windows")
issue_windows(c, o, t) ==
    IF c.cdb_len > MAX_COMMAND_LENGTH
    THEN [hdr |-> None, env |-> None, trace |-> <<>>,
          outcome |-> [kind |-> "Panic"], calls |-> 0]
    ELSE LET h == windows_header(c, t)
             e == windows_result_data(windows_header_after(h, o), o)
             r == process_result(e)
         IN [hdr |-> h, env |-> e, trace |-> r.trace, outcome |-> r.result,
             calls |-> 1]

Scsi_issue(pf, c, o, t) ==
    IF pf = "linux" THEN issue_linux(c, o, t) ELSE issue_windows(c, o, t)

IdleIssue ==
    /\ platform = "linux"
    /\ cmd = None
    /\ out = None
    /\ hdr = None
    /\ env = None
    /\ trace = <<>>
    /\ outcome = None
    /\ calls = 0
    /\ timeout = Duration_from_millis(SG_DEFAULT_TIMEOUT)

InitIssue ==
    /\ platform \in {"linux", "windows"}
    /\ cmd = None
    /\ out = None
    /\ hdr = None
    /\ env = None
    /\ trace = <<>>
    /\ outcome = None
    /\ calls = 0
    /\ timeout = Duration_from_millis(SG_DEFAULT_TIMEOUT)

\* one call of Scsi::issue with some command; the platform and the device
\* answer in some way
Issue ==
    /\ \E c \in Commands :
       \E o \in Outs(c) :
          LET r == Scsi_issue(platform, c, o, timeout)
          IN /\ cmd' = c
             /\ out' = o
             /\ hdr' = r.hdr
             /\ env' = r.env
             /\ trace' = r.trace
             /\ outcome' = r.outcome
             /\ calls' = r.calls
    /\ UNCHANGED <<platform, timeout>>
    /\ UNCHANGED nonIssueVars

NextIssue ==
    \/ Issue

\* ------------------------------------------------------------------------
\* Command builders: sanitize.rs, ata.rs, read.rs, mode_select.rs,
\* read_defect_data.rs, format_unit.rs, security_protocol_out.rs,
\* test_unit_ready.rs.
\* A builder call returns [outcome, calls, cmd, cdb, hdr, env, trace] (and
\* the builder after the call, where it changes).
\* ------------------------------------------------------------------------

\* the first error of a sequence of checks, as `?` returns it, or Ok
RECURSIVE FirstError(_)
FirstError(checks) ==
    IF checks = <<>> THEN [kind |-> "Ok"]
    ELSE IF Head(checks).kind # "Ok" THEN Head(checks)
    ELSE FirstError(Tail(checks))

\* `return Err(..)` / `?` before self.interface.issue is reached
Rejected(err) ==
    [outcome |-> err, calls |-> 0, cmd |-> None, cdb |-> None,
     hdr |-> None, env |-> None, trace |-> <<>>]

\* assert! failed before self.interface.issue is reached
Panicked ==
    [outcome |-> [kind |-> "Panic"], calls |-> 0, cmd |-> None, cdb |-> None,
     hdr |-> None, env |-> None, trace |-> <<>>]

\* self.interface.issue(&ThisCommand {..})
Dispatched(pf, c, fields, o) ==
    LET r == Scsi_issue(pf, c, o, timeout)
    IN [outcome |-> r.outcome, calls |-> r.calls, cmd |-> c, cdb |-> fields,
        hdr |-> r.hdr, env |-> r.env, trace |-> r.trace]

BadArgument(text) == [kind |-> "BadArgument", text |-> text]

\* `as u8`, `as u16`
as_u8(n) == n % 256
as_u16(n) == n % 65536

\* ---- sanitize.rs -------------------------------------------------------
OverwriteParameterListHeaderSize == 4

Overwrite == 1
BlockErase == 2
CryptographicErase == 3
ExitFailureMode == 31

\* SanitizeCommand::new
SanitizeCommand_new ==
    [sanitize_service_action |-> Overwrite,
     service_action |-> Overwrite,
     parameter_list_length |-> 0,
     test |-> 0,
     overwrite_count |-> 0,
     initialization_pattern_length |-> 0,
     data_buffer_length |-> 0]

\* SanitizeCommand::service_action
SanitizeCommand_service_action(s, value) == [s EXCEPT !.service_action = value]

\* data_buffer.total_size() of FlexibleStruct<OverwriteParameterListHeader, u8>
SanitizeCommand_total_size(s) ==
    OverwriteParameterListHeaderSize + s.data_buffer_length

\* OverwriteParameterListBuilder::done
OverwriteParameterListBuilder_done(s, test, overwrite_count, pattern_len) ==
    LET e == FirstError(<<bitfield_bound_check(test, 8, 2),
                          bitfield_bound_check(overwrite_count, 8, 5),
                          bitfield_bound_check(pattern_len, 64, 16)>>)
    IN IF e.kind # "Ok"
       THEN [san |-> s, r |-> Rejected(e)]
       ELSE [san |-> [s EXCEPT
                        !.test = test,
                        !.overwrite_count = overwrite_count,
                        !.initialization_pattern_length = as_u16(pattern_len),
                        !.data_buffer_length = pattern_len],
             r |-> [Rejected([kind |-> "Ok"]) EXCEPT !.outcome = [kind |-> "Ok"]]]

\* ThisCommand::data_size of sanitize.rs
SanitizeCommand_data_size(s) ==
    IF s.sanitize_service_action = Overwrite
    THEN SanitizeCommand_total_size(s)
    ELSE 0

\* SanitizeCommand::issue
SanitizeCommand_issue(s, pf, o) ==
    LET t == IF s.sanitize_service_action = Overwrite
             THEN [s EXCEPT !.parameter_list_length =
                               as_u16(SanitizeCommand_total_size(s))]
             ELSE s
    IN [san |-> t,
        r |-> Dispatched(pf,
                 [direction |-> "ToDevice",
                  cdb_len |-> 10,
                  data_size |-> SanitizeCommand_data_size(t),
                  data_len |-> SanitizeCommand_total_size(t)],
                 [service_action |-> t.service_action,
                  parameter_list_length |-> t.parameter_list_length],
                 o)]

\* ---- ata.rs ------------------------------------------------------------
\* AtaPassThroughCommand::issue_12; count is <<"None">> or <<"Some", n>>
AtaPassThroughCommand_issue_12(features, lba, count, data_len, dir, pf, o) ==
    LET e1 == FirstError(<<bitfield_bound_check(features, 16, 8),
                           bitfield_bound_check(lba, 64, 24)>>)
        cnt == IF count[1] = "Some" THEN count[2] ELSE as_u16(data_len)
        sector_count == cnt \div 512
        e2 == bitfield_bound_check(sector_count, 16, 8)
    IN IF e1.kind # "Ok" THEN Rejected(e1)
       ELSE IF cnt % 512 # 0 THEN Panicked
       ELSE IF e2.kind # "Ok" THEN Rejected(e2)
       ELSE Dispatched(pf,
               [direction |-> dir,
                cdb_len |-> 12,
                data_size |-> cnt,
                data_len |-> cnt],
               [features |-> as_u8(features),
                count |-> as_u8(cnt \div 512),
                lba |-> lba % 16777216],
               o)

\* ---- read.rs -----------------------------------------------------------
\* u32::saturating_mul; the products explored stay below 2^31
saturating_mul(a, b) == a * b

\* ReadCommand::common_check
ReadCommand_common_check(r, group_number_bits, logical_block_address_bits, transfer_length_bits, allow_dld, expect_tag) ==
    LET e == FirstError(<<
               bitfield_bound_check(r.read_protect, 8, 3),
               bitfield_bound_check(r.group_number, 8, group_number_bits),
               bitfield_bound_check(r.logical_block_address, 64,
                                    logical_block_address_bits),
               bitfield_bound_check(r.transfer_length, 32, transfer_length_bits),
               bitfield_bound_check(
                   saturating_mul(r.transfer_length, r.logical_block_size),
                   64, 32)>>)
    IN IF e.kind # "Ok" THEN e
       ELSE IF ~allow_dld /\ r.dld
       THEN BadArgument("DLDs are not allowed here")
       ELSE IF ~expect_tag /\ r.tag # 0
       THEN BadArgument("expected tags and mask are not allowed here")
       ELSE [kind |-> "Ok"]

\* ReadCommand::issue_10
ReadCommand_issue_10(r, pf, o) ==
    LET e == ReadCommand_common_check(r, 5, 32, 16, FALSE, FALSE)
        allocation_length == saturating_mul(r.logical_block_size, r.transfer_length)
    IN IF e.kind # "Ok" THEN Rejected(e)
       ELSE Dispatched(pf,
               [direction |-> "FromDevice",
                cdb_len |-> 10,
                data_size |-> allocation_length,
                data_len |-> allocation_length],
               [read_protect |-> r.read_protect,
                logical_block_address |-> r.logical_block_address,
                group_number |-> r.group_number,
                transfer_length |-> as_u16(r.transfer_length)],
               o)

\* ReadCommand::issue_12
ReadCommand_issue_12(r, pf, o) ==
    LET e == ReadCommand_common_check(r, 5, 32, 32, FALSE, FALSE)
        allocation_length == saturating_mul(r.logical_block_size, r.transfer_length)
    IN IF e.kind # "Ok" THEN Rejected(e)
       ELSE Dispatched(pf,
               [direction |-> "FromDevice",
                cdb_len |-> 12,
                data_size |-> allocation_length,
                data_len |-> allocation_length],
               [read_protect |-> r.read_protect,
                logical_block_address |-> r.logical_block_address,
                group_number |-> r.group_number,
                transfer_length |-> r.transfer_length],
               o)

\* ReadCommand::issue_16
ReadCommand_issue_16(r, pf, o) ==
    LET e == ReadCommand_common_check(r, 6, 64, 32, TRUE, FALSE)
        allocation_length == saturating_mul(r.logical_block_size, r.transfer_length)
    IN IF e.kind # "Ok" THEN Rejected(e)
       ELSE Dispatched(pf,
               [direction |-> "FromDevice",
                cdb_len |-> 16,
                data_size |-> allocation_length,
                data_len |-> allocation_length],
               [read_protect |-> r.read_protect,
                logical_block_address |-> r.logical_block_address,
                group_number |-> r.group_number,
                transfer_length |-> r.transfer_length,
                dld |-> r.dld],
               o)

\* ---- mode_select.rs ----------------------------------------------------
\* ModeSelectCommand::error_check without the revert-to-defaults test
ModeSelectCommand_error_check_allow_all(m, parameter_length_bits, allow_revert_to_defaults) ==
    bitfield_bound_check(m.data_len, 64, parameter_length_bits)

\* ModeSelectCommand::error_check
ModeSelectCommand_error_check(m, parameter_length_bits, allow_revert_to_defaults) ==
    LET e == bitfield_bound_check(m.data_len, 64, parameter_length_bits)
    IN IF e.kind # "Ok" THEN e
       ELSE IF ~allow_revert_to_defaults /\ m.revert_to_defaults
       THEN BadArgument("revert to defaults is not allowed here")
       ELSE [kind |-> "Ok"]

\* ModeSelectCommand::issue_6
ModeSelectCommand_issue_6(m, pf, o) ==
    LET e == ModeSelectCommand_error_check(m, 8, TRUE)
    IN IF e.kind # "Ok" THEN Rejected(e)
       ELSE Dispatched(pf,
               [direction |-> "ToDevice",
                cdb_len |-> 6,
                data_size |-> m.data_len,
                data_len |-> m.data_len],
               [page_format |-> m.page_format,
                revert_to_defaults |-> m.revert_to_defaults,
                saved_pages |-> m.saved_pages,
                parameter_list_length |-> as_u8(m.data_len)],
               o)

\* ModeSelectCommand::issue_10
ModeSelectCommand_issue_10(m, pf, o) ==
    LET e == ModeSelectCommand_error_check(m, 16, FALSE)
    IN IF e.kind # "Ok" THEN Rejected(e)
       ELSE Dispatched(pf,
               [direction |-> "ToDevice",
                cdb_len |-> 10,
                data_size |-> m.data_len,
                data_len |-> m.data_len],
               [page_format |-> m.page_format,
                saved_pages |-> m.saved_pages,
                parameter_list_length |-> as_u16(m.data_len)],
               o)

\* ---- read_defect_data.rs -----------------------------------------------
DataBufferHeader10Size == 4
U16_MAX == 65535

\* ReadDefectDataCommand::get_defect_list_item_size
get_defect_list_item_size(d) ==
    CASE d.defect_list_format = 0 -> 4
      [] d.defect_list_format = 1 -> 8
      [] d.defect_list_format = 2 -> 8
      [] d.defect_list_format = 3 -> 8
      [] d.defect_list_format = 4 -> 8
      [] d.defect_list_format = 5 -> 8
      [] OTHER -> 1

\* ReadDefectDataCommand::error_check
ReadDefectDataCommand_error_check(d, header_size, max_allocation_length, allow_address_descriptor_index) ==
    LET e == bitfield_bound_check(d.defect_list_format, 8, 3)
        max_descriptor_length ==
            (max_allocation_length - header_size) \div get_defect_list_item_size(d)
    IN IF e.kind # "Ok" THEN e
       ELSE IF d.descriptor_length > max_descriptor_length
       THEN [kind |-> "ArgumentOutOfBounds",
             max |-> max_descriptor_length,
             given |-> d.descriptor_length]
       ELSE IF ~allow_address_descriptor_index /\ d.address_descriptor_index > 0
       THEN BadArgument("address descriptor index is not allowed here")
       ELSE [kind |-> "Ok"]

\* ReadDefectDataCommand::issue_10
ReadDefectDataCommand_issue_10(d, pf, o) ==
    LET extra_allocation_length ==
            d.descriptor_length * get_defect_list_item_size(d)
        allocation_length == DataBufferHeader10Size + extra_allocation_length
        e == ReadDefectDataCommand_error_check(d, DataBufferHeader10Size,
                                               U16_MAX, FALSE)
    IN IF e.kind # "Ok" THEN Rejected(e)
       ELSE Dispatched(pf,
               [direction |-> "FromDevice",
                cdb_len |-> 10,
                data_size |-> extra_allocation_length + DataBufferHeader10Size,
                data_len |-> extra_allocation_length + DataBufferHeader10Size],
               [request_primary_defect_list |-> d.request_primary_defect_list,
                request_grown_defect_list |-> d.request_grown_defect_list,
                defect_list_format |-> d.defect_list_format,
                allocation_length |-> as_u16(allocation_length)],
               o)

\* ---- #[bitfield] records --------------------------------------------------
\* A record is the sequence of its fields in declaration order, each
\* <<width in bits, value>>.

\* the width low bits of value, most significant first
RECURSIVE Bits(_, _)
Bits(value, width) ==
    IF width = 0 THEN <<>>
    ELSE IF width > 16
    THEN Bits(value \div 65536, width - 16) \o Bits(value % 65536, 16)
    ELSE Append(Bits(value \div 2, width - 1), value % 2)

\* the number whose binary digits, most significant first, are bits
RECURSIVE FromBits(_)
FromBits(bits) ==
    IF bits = <<>> THEN 0
    ELSE 2 * FromBits(SubSeq(bits, 1, Len(bits) - 1)) + bits[Len(bits)]

\* the bits of all fields, in declaration order
RECURSIVE FieldBits(_)
FieldBits(fields) ==
    IF fields = <<>> THEN <<>>
    ELSE Bits(Head(fields)[2], Head(fields)[1]) \o FieldBits(Tail(fields))

\* sum of the declared widths
RECURSIVE BitWidth(_)
BitWidth(fields) ==
    IF fields = <<>> THEN 0 ELSE Head(fields)[1] + BitWidth(Tail(fields))

\* the bytes of a record: fields packed most significant bit first
into_bytes(fields) ==
    LET bits == FieldBits(fields)
    IN [i \in 1..(Len(bits) \div 8) |-> FromBits(SubSeq(bits, 8 * i - 7, 8 * i))]

OPERATION_CODE_10 == 40

\* CommandBuffer10 of read.rs with the fields the way they are declared
\* for READ(12): transfer_length ahead of reserved and group_number
ReadCommand_CommandBuffer10_as_12(r) ==
    << <<8, OPERATION_CODE_10>>,
       <<3, r.read_protect>>,
       <<1, r.disable_page_out>>,
       <<1, r.force_unit_access>>,
       <<1, r.rebuild_assist_recovery_control>>,
       <<2, 0>>,
       <<32, r.logical_block_address>>,
       <<16, as_u16(r.transfer_length)>>,
       <<3, 0>>,
       <<5, r.group_number>>,
       <<8, r.control>> >>

\* CommandBuffer10 of read.rs as ReadCommand::issue_10 fills it
ReadCommand_CommandBuffer10(r) ==
    << <<8, OPERATION_CODE_10>>,
       <<3, r.read_protect>>,
       <<1, r.disable_page_out>>,
       <<1, r.force_unit_access>>,
       <<1, r.rebuild_assist_recovery_control>>,
       <<2, 0>>,
       <<32, r.logical_block_address>>,
       <<3, 0>>,
       <<5, r.group_number>>,
       <<16, as_u16(r.transfer_length)>>,
       <<8, r.control>> >>

\* ReadCommand::issue_10 together with the bytes of the command buffer it
\* hands to the transport
ReadCommand_issue_10_bytes(r, pf, o) ==
    LET d == ReadCommand_issue_10(r, pf, o)
    IN IF d.cdb = None THEN d
       ELSE [packed |-> into_bytes(ReadCommand_CommandBuffer10(r))] @@ d

\* ---- read_buffer.rs -----------------------------------------------------
\* ReadBufferCommand::error_check
ReadBufferCommand_error_check(b, buffer_offset_bits, allocation_length_bits) ==
    FirstError(<<bitfield_bound_check(b.mode_specific, 8, 3),
                 bitfield_bound_check(b.mode, 8, 5),
                 bitfield_bound_check(b.buffer_offset, 64, buffer_offset_bits),
                 bitfield_bound_check(b.allocation_length, 32,
                                      allocation_length_bits)>>)

\* ReadBufferCommand::issue_10
ReadBufferCommand_issue_10(b, pf, o) ==
    LET e == ReadBufferCommand_error_check(b, 24, 24)
    IN IF e.kind # "Ok" THEN Rejected(e)
       ELSE Dispatched(pf,
               [direction |-> "FromDevice",
                cdb_len |-> 10,
                data_size |-> b.allocation_length,
                data_len |-> b.allocation_length],
               [mode_specific |-> b.mode_specific,
                mode |-> b.mode,
                buffer_offset |-> b.buffer_offset,
                allocation_length |-> b.allocation_length],
               o)

\* the bounds the comments on the setters state: "must be less than"
Documented_test == 2
Documented_overwrite_count == 32
Documented_initialization_pattern_length == 65535
Documented_mode_specific == 8
Documented_mode == 32
Documented_buffer_offset == 16777215
Documented_allocation_length == 16777215

\* ---- #[bitfield] records of the command modules --------------------------
\* each record type with the widths of its fields in declaration order and
\* the byte size its module's layout_test states
\* read.rs with group_number of CommandBuffer10 declared one bit wider
ReadLayouts_wide_group_number ==
    <<[name |-> "read::CommandBuffer10", widths |-> <<8, 3, 1, 1, 1, 2, 32, 3, 6, 16, 8>>, declared |-> 10],
      [name |-> "read::CommandBuffer12", widths |-> <<8, 3, 1, 1, 1, 2, 32, 32, 3, 5, 8>>, declared |-> 12],
      [name |-> "read::CommandBuffer16", widths |-> <<8, 3, 1, 1, 1, 1, 1, 64, 32, 1, 1, 6, 8>>, declared |-> 16],
      [name |-> "read::CommandBuffer32", widths |-> <<8, 8, 32, 3, 5, 8, 16, 3, 1, 1, 1, 1, 1, 8, 64, 32, 16, 16, 32>>, declared |-> 32]>>

\* the records of read.rs
ReadLayouts ==
    <<[name |-> "read::CommandBuffer10", widths |-> <<8, 3, 1, 1, 1, 2, 32, 3, 5, 16, 8>>, declared |-> 10],
      [name |-> "read::CommandBuffer12", widths |-> <<8, 3, 1, 1, 1, 2, 32, 32, 3, 5, 8>>, declared |-> 12],
      [name |-> "read::CommandBuffer16", widths |-> <<8, 3, 1, 1, 1, 1, 1, 64, 32, 1, 1, 6, 8>>, declared |-> 16],
      [name |-> "read::CommandBuffer32", widths |-> <<8, 8, 32, 3, 5, 8, 16, 3, 1, 1, 1, 1, 1, 8, 64, 32, 16, 16, 32>>, declared |-> 32]>>

\* the records of the other command modules
OtherLayouts ==
    <<[name |-> "ata::CommandBuffer12", widths |-> <<8, 3, 4, 1, 2, 1, 1, 1, 1, 2, 8, 8, 8, 8, 8, 8, 8, 8, 8>>, declared |-> 12],
      [name |-> "ata::CommandBuffer16", widths |-> <<8, 3, 4, 1, 2, 1, 1, 1, 1, 2, 8, 8, 8, 8, 8, 8, 8, 8, 8, 8, 8, 8, 8>>, declared |-> 16],
      [name |-> "background_control::CommandBuffer", widths |-> <<8, 3, 5, 2, 6, 8, 88, 8>>, declared |-> 16],
      [name |-> "format_unit::CommandBuffer", widths |-> <<8, 2, 1, 1, 1, 3, 8, 14, 2, 8>>, declared |-> 6],
      [name |-> "format_unit::ShortParameterListHeader", widths |-> <<5, 3, 1, 1, 1, 1, 1, 1, 1, 1, 16>>, declared |-> 4],
      [name |-> "format_unit::LongParameterListHeader", widths |-> <<5, 3, 1, 1, 1, 1, 1, 1, 1, 1, 8, 4, 4, 32>>, declared |-> 8],
      [name |-> "format_unit::InitializationPatternDescriptorHeader", widths |-> <<2, 1, 5, 8, 16>>, declared |-> 4],
      [name |-> "format_unit::ShortBlockFormatAddressDescriptor", widths |-> <<32>>, declared |-> 4],
      [name |-> "format_unit::ExtendedBytesFromIndexAddressDescriptor", widths |-> <<24, 8, 1, 3, 28>>, declared |-> 8],
      [name |-> "format_unit::ExtendedPhysicalSectorAddressDescriptor", widths |-> <<24, 8, 1, 3, 28>>, declared |-> 8],
      [name |-> "format_unit::LongBlockFormatAddressDescriptor", widths |-> <<64>>, declared |-> 8],
      [name |-> "format_unit::BytesFromIndexFormatAddressDescriptor", widths |-> <<24, 8, 32>>, declared |-> 8],
      [name |-> "format_unit::PhysicalSectorFormatAddressDescriptor", widths |-> <<24, 8, 32>>, declared |-> 8],
      [name |-> "get_lba_status::CommandBuffer", widths |-> <<8, 3, 5, 64, 32, 8, 8>>, declared |-> 16],
      [name |-> "get_lba_status::ParameterHeader", widths |-> <<32, 32>>, declared |-> 8],
      [name |-> "get_lba_status::Descriptor", widths |-> <<64, 32, 8, 24>>, declared |-> 16],
      [name |-> "inquiry::CommandBuffer", widths |-> <<8, 6, 1, 1, 8, 16, 8>>, declared |-> 6],
      [name |-> "log_select::CommandBuffer", widths |-> <<8, 6, 1, 1, 2, 6, 8, 24, 16, 8>>, declared |-> 10],
      [name |-> "log_sense::CommandBuffer", widths |-> <<8, 6, 1, 1, 2, 6, 8, 8, 16, 16, 8>>, declared |-> 10],
      [name |-> "mode_select::CommandBuffer6", widths |-> <<8, 3, 1, 2, 1, 1, 16, 8, 8>>, declared |-> 6],
      [name |-> "mode_select::CommandBuffer10", widths |-> <<8, 3, 1, 3, 1, 40, 16, 8>>, declared |-> 10],
      [name |-> "mode_sense::CommandBuffer6", widths |-> <<8, 4, 1, 3, 2, 6, 8, 8, 8>>, declared |-> 6],
      [name |-> "mode_sense::CommandBuffer10", widths |-> <<8, 3, 1, 1, 3, 2, 6, 8, 24, 16, 8>>, declared |-> 10],
      [name |-> "persistent_reserve_in::ReadReservationBitfield", widths |-> <<32, 32, 64, 32, 8, 4, 4, 16>>, declared |-> 24],
      [name |-> "persistent_reserve_in::ReportCapabilitiesBitfield", widths |-> <<16, 1, 2, 1, 1, 1, 1, 1, 1, 3, 3, 1, 1, 1, 1, 1, 1, 1, 1, 1, 7, 1, 16>>, declared |-> 8],
      [name |-> "persistent_reserve_in::ReadFullsstatusHeaderBitfield", widths |-> <<32, 32>>, declared |-> 8],
      [name |-> "persistent_reserve_in::ReadFullsstatusDescriptorHeaderBitfield", widths |-> <<64, 32, 6, 1, 1, 4, 4, 32, 16, 32>>, declared |-> 24],
      [name |-> "persistent_reserve_in::CommandBuffer", widths |-> <<8, 3, 5, 40, 16, 8>>, declared |-> 10],
      [name |-> "persistent_reserve_out::BasicParameterHeader", widths |-> <<64, 64, 32, 4, 1, 1, 1, 1, 8, 16>>, declared |-> 24],
      [name |-> "persistent_reserve_out::RegisterAndMoveParameterHeader", widths |-> <<64, 64, 8, 6, 1, 1, 16, 32>>, declared |-> 24],
      [name |-> "persistent_reserve_out::CommandBuffer", widths |-> <<8, 3, 5, 4, 4, 16, 32, 8>>, declared |-> 10],
      [name |-> "read_buffer::CommandBuffer10", widths |-> <<8, 3, 5, 8, 24, 24, 8>>, declared |-> 10],
      [name |-> "read_buffer::CommandBuffer16", widths |-> <<8, 3, 5, 64, 32, 8, 8>>, declared |-> 16],
      [name |-> "read_capacity::CommandBuffer10", widths |-> <<8, 7, 1, 32, 16, 7, 1, 8>>, declared |-> 10],
      [name |-> "read_capacity::CommandBuffer16", widths |-> <<8, 3, 5, 64, 32, 7, 1, 8>>, declared |-> 16],
      [name |-> "read_capacity::DataBuffer10", widths |-> <<32, 32>>, declared |-> 8],
      [name |-> "read_capacity::DataBuffer16", widths |-> <<64, 32, 2, 2, 3, 1, 4, 4, 1, 1, 14, 128>>, declared |-> 32],
      [name |-> "read_defect_data::CommandBuffer10", widths |-> <<8, 8, 3, 1, 1, 3, 32, 16, 8>>, declared |-> 10],
      [name |-> "read_defect_data::CommandBuffer12", widths |-> <<8, 3, 1, 1, 3, 32, 32, 8, 8>>, declared |-> 12],
      [name |-> "read_defect_data::DataBufferHeader10", widths |-> <<8, 3, 1, 1, 3, 16>>, declared |-> 4],
      [name |-> "read_defect_data::DataBufferHeader12", widths |-> <<8, 3, 1, 1, 3, 16, 32>>, declared |-> 8],
      [name |-> "reassign_blocks::CommandBuffer", widths |-> <<8, 6, 1, 1, 24, 8>>, declared |-> 6],
      [name |-> "receive_diagnostic_results::CommandBuffer", widths |-> <<8, 7, 1, 8, 16, 8>>, declared |-> 6],
      [name |-> "report_identifying_information::CommandBuffer", widths |-> <<8, 3, 5, 32, 32, 7, 1, 8>>, declared |-> 12],
      [name |-> "report_luns::CommandBuffer", widths |-> <<8, 8, 8, 24, 32, 8, 8>>, declared |-> 12],
      [name |-> "report_supported_operation_codes::CommandBuffer", widths |-> <<8, 3, 5, 1, 4, 3, 8, 16, 32, 8, 8>>, declared |-> 12],
      [name |-> "report_supported_operation_codes::AllCommandsParameterDataHeader", widths |-> <<32>>, declared |-> 4],
      [name |-> "report_supported_operation_codes::CommandDescriptorHeader", widths |-> <<8, 8, 16, 8, 6, 1, 1, 16>>, declared |-> 8],
      [name |-> "report_supported_operation_codes::OneCommandParameterDataHeader", widths |-> <<8, 1, 4, 3, 16>>, declared |-> 4],
      [name |-> "report_supported_operation_codes::CommandTimeoutsDescriptor", widths |-> <<16, 8, 8, 32, 32>>, declared |-> 12],
      [name |-> "report_supported_task_management_functions::CommandBuffer", widths |-> <<8, 3, 5, 1, 31, 32, 8, 8>>, declared |-> 12],
      [name |-> "report_supported_task_management_functions::ReportSupportedTaskManagementFunctionsExtendedParameterData", widths |-> <<1, 1, 1, 1, 1, 1, 2, 5, 1, 1, 1, 8, 8, 7, 1, 8, 1, 1, 1, 1, 1, 1, 2, 5, 1, 1, 1, 32, 32>>, declared |-> 16],
      [name |-> "report_timestamp::CommandBuffer", widths |-> <<8, 3, 5, 32, 32, 8, 8>>, declared |-> 12],
      [name |-> "report_timestamp::ReportTimestampParameterData", widths |-> <<16, 5, 3, 8, 48, 16>>, declared |-> 12],
      [name |-> "request_sense::CommandBuffer", widths |-> <<8, 7, 1, 16, 8, 8>>, declared |-> 6],
      [name |-> "sanitize::CommandBuffer", widths |-> <<8, 1, 1, 1, 5, 40, 16, 8>>, declared |-> 10],
      [name |-> "sanitize::OverwriteParameterListHeader", widths |-> <<1, 2, 5, 8, 16>>, declared |-> 4],
      [name |-> "security_protocol_in::CommandBuffer", widths |-> <<8, 8, 16, 1, 7, 8, 32, 8, 8>>, declared |-> 12],
      [name |-> "security_protocol_out::CommandBuffer", widths |-> <<8, 8, 16, 1, 7, 8, 32, 8, 8>>, declared |-> 12],
      [name |-> "send_diagnostic::CommandBuffer", widths |-> <<8, 3, 1, 1, 1, 1, 1, 8, 16, 8>>, declared |-> 6],
      [name |-> "set_identifying_information::CommandBuffer", widths |-> <<8, 3, 5, 32, 32, 7, 1, 8>>, declared |-> 12],
      [name |-> "set_timestamp::CommandBuffer", widths |-> <<8, 3, 5, 32, 32, 8, 8>>, declared |-> 12],
      [name |-> "start_stop_unit::CommandBuffer", widths |-> <<8, 7, 1, 8, 4, 4, 4, 1, 1, 1, 1, 8>>, declared |-> 6],
      [name |-> "stream_control::CommandBuffer", widths |-> <<8, 1, 2, 5, 16, 16, 72, 8>>, declared |-> 16],
      [name |-> "stream_control::DataBuffer", widths |-> <<8, 24, 16, 16>>, declared |-> 8],
      [name |-> "synchronize_cache::CommandBuffer10", widths |-> <<8, 5, 1, 1, 1, 32, 3, 5, 16, 8>>, declared |-> 10],
      [name |-> "synchronize_cache::CommandBuffer16", widths |-> <<8, 5, 1, 1, 1, 64, 32, 3, 5, 8>>, declared |-> 16],
      [name |-> "test_unit_ready::CommandBuffer", widths |-> <<8, 32, 8>>, declared |-> 6],
      [name |-> "unmap::CommandBuffer", widths |-> <<8, 7, 1, 32, 3, 5, 16, 8>>, declared |-> 10],
      [name |-> "write_and_verify::CommandBuffer10", widths |-> <<8, 3, 1, 1, 2, 1, 32, 3, 5, 16, 8>>, declared |-> 10],
      [name |-> "write_and_verify::CommandBuffer12", widths |-> <<8, 3, 1, 1, 2, 1, 32, 32, 3, 5, 8>>, declared |-> 12],
      [name |-> "write_and_verify::CommandBuffer16", widths |-> <<8, 3, 1, 1, 2, 1, 64, 32, 3, 5, 8>>, declared |-> 16],
      [name |-> "write_and_verify::CommandBuffer32", widths |-> <<8, 8, 32, 3, 5, 8, 16, 3, 1, 1, 2, 1, 8, 64, 32, 16, 16, 32>>, declared |-> 32],
      [name |-> "write_atomic::CommandBuffer16", widths |-> <<8, 3, 1, 1, 3, 64, 16, 16, 2, 6, 8>>, declared |-> 16],
      [name |-> "write_atomic::CommandBuffer32", widths |-> <<8, 8, 16, 16, 3, 5, 8, 16, 3, 1, 1, 1, 1, 1, 8, 64, 32, 16, 16, 32>>, declared |-> 32],
      [name |-> "write_buffer::CommandBuffer", widths |-> <<8, 3, 5, 8, 24, 24, 8>>, declared |-> 10],
      [name |-> "write_long::CommandBuffer10", widths |-> <<8, 1, 1, 1, 4, 1, 32, 8, 16, 8>>, declared |-> 10],
      [name |-> "write_long::CommandBuffer16", widths |-> <<8, 1, 1, 1, 5, 64, 16, 16, 8, 8>>, declared |-> 16],
      [name |-> "write_same::CommandBuffer10", widths |-> <<8, 3, 1, 1, 3, 32, 3, 5, 16, 8>>, declared |-> 10],
      [name |-> "write_same::CommandBuffer16", widths |-> <<8, 3, 1, 1, 2, 1, 64, 32, 3, 5, 8>>, declared |-> 16],
      [name |-> "write_same::CommandBuffer32", widths |-> <<8, 8, 32, 3, 5, 8, 16, 3, 1, 1, 2, 1, 8, 64, 32, 16, 16, 32>>, declared |-> 32],
      [name |-> "write_stream::CommandBuffer16", widths |-> <<8, 3, 1, 1, 3, 64, 16, 16, 2, 6, 8>>, declared |-> 16],
      [name |-> "write_stream::CommandBuffer32", widths |-> <<8, 8, 16, 16, 2, 6, 8, 16, 3, 1, 1, 3, 8, 64, 32, 16, 16, 32>>, declared |-> 32],
      [name |-> "unmap::UnmapParameterHeader", widths |-> <<16, 16, 32>>, declared |-> 8],
      [name |-> "unmap::UnmapBlockDescriptor", widths |-> <<64, 32, 32>>, declared |-> 16]>>

RecordLayouts == ReadLayouts \o OtherLayouts

\* RecordType::new(): every field zero
Record_new(rec) == [i \in 1..Len(rec.widths) |-> <<rec.widths[i], 0>>]

\* ---- format_unit.rs ----------------------------------------------------
SHORT_PARAMETER_LIST_HEADER_LENGTH == 4
LONG_PARAMETER_LIST_HEADER_LENGTH == 8
InitializationPatternDescriptorHeaderSize == 4

\* the data buffer FormatUnitCommand::issue assembles
FormatUnitCommand_data_buffer_len(f) ==
    (IF f.longlist = 0 THEN SHORT_PARAMETER_LIST_HEADER_LENGTH
     ELSE LONG_PARAMETER_LIST_HEADER_LENGTH)
    + (IF f.initialization_pattern = 1
       THEN InitializationPatternDescriptorHeaderSize
            + f.initialization_pattern_length
       ELSE 0)
    + f.defect_list_length

\* FormatUnitCommand::issue
FormatUnitCommand_issue(f, pf, o) ==
    LET e1 == FirstError(<<
                bitfield_bound_check(f.format_protection_information, 8, 2),
                bitfield_bound_check(f.defect_list_format, 8, 3),
                bitfield_bound_check(f.fast_format, 8, 2)>>)
        e2 == bitfield_bound_check(f.defect_list_length, 32, 16)
        fields == [format_protection_information |-> f.format_protection_information,
                   defect_list_format |-> f.defect_list_format,
                   fast_format |-> f.fast_format,
                   format_data |-> f.format_data,
                   longlist |-> f.longlist]
    IN IF e1.kind # "Ok" THEN Rejected(e1)
       ELSE IF f.format_data = 0
       THEN Dispatched(pf,
               [direction |-> "ToDevice", cdb_len |-> 6,
                data_size |-> 0, data_len |-> 0],
               fields, o)
       ELSE IF f.longlist = 0 /\ e2.kind # "Ok" THEN Rejected(e2)
       ELSE Dispatched(pf,
               [direction |-> "ToDevice", cdb_len |-> 6,
                data_size |-> FormatUnitCommand_data_buffer_len(f),
                data_len |-> FormatUnitCommand_data_buffer_len(f)],
               [defect_list_length |->
                    IF f.longlist = 0 THEN as_u16(f.defect_list_length)
                    ELSE f.defect_list_length] @@ fields,
               o)

\* ---- format_unit.rs: the parameter list builders -------------------------
ShortBlockFormatAddressDescriptorSize == 4
LongBlockFormatAddressDescriptorSize == 8

\* LongParameterListHeader::new()
LongParameterListHeader_new ==
    [protection_fields_usage |-> 0,
     initialization_pattern |-> 0,
     protection_interval_exponent |-> 0,
     defect_list_length |-> 0]

\* ParameterBuilder::new
ParameterBuilder_new ==
    [longlist |-> FALSE,
     header_buffer |-> LongParameterListHeader_new,
     initialization_pattern_length |-> 0,
     defect_list |-> <<>>]

\* a call that returns Ok before anything is dispatched
Accepted == [Rejected([kind |-> "Ok"]) EXCEPT !.outcome = [kind |-> "Ok"]]

\* LongParameterListHeaderBuilder::done; h holds the values given to the
\* setters of the header builder, whose header_buffer starts from
\* LongParameterListHeader::new()
LongParameterListHeaderBuilder_done(pb, h) ==
    LET e == FirstError(<<
               bitfield_bound_check(h.protection_fields_usage, 8, 3),
               bitfield_bound_check(h.protection_interval_exponent, 8, 4)>>)
    IN IF e.kind # "Ok" THEN [pb |-> pb, r |-> Rejected(e)]
       ELSE [pb |-> [pb EXCEPT
                       !.header_buffer =
                           [LongParameterListHeader_new EXCEPT
                              !.protection_fields_usage =
                                  h.protection_fields_usage,
                              !.initialization_pattern =
                                  h.initialization_pattern,
                              !.protection_interval_exponent =
                                  h.protection_interval_exponent],
                       !.longlist = TRUE],
             r |-> Accepted]

\* ShortParameterListHeaderBuilder::done: the delegate's done, then
\* longlist = false
ShortParameterListHeaderBuilder_done(pb, h) ==
    LET d == LongParameterListHeaderBuilder_done(pb,
                 [protection_fields_usage |-> h.protection_fields_usage,
                  initialization_pattern |-> h.initialization_pattern,
                  protection_interval_exponent |-> 0])
    IN IF d.r.outcome.kind # "Ok" THEN d
       ELSE [d EXCEPT !.pb.longlist = FALSE]

\* InitializationPatternDescriptorBuilder::done
InitializationPatternDescriptorBuilder_done(pb, pattern_len) ==
    LET e == bitfield_bound_check(pattern_len, 64, 16)
    IN IF e.kind # "Ok" THEN [pb |-> pb, r |-> Rejected(e)]
       ELSE [pb |-> [pb EXCEPT !.initialization_pattern_length = pattern_len],
             r |-> Accepted]

\* the bytes FormatUnitCommand::issue appends for a defect list
RECURSIVE DefectListBytes(_)
DefectListBytes(items) ==
    IF items = <<>> THEN 0
    ELSE Head(items).size + DefectListBytes(Tail(items))

\* the sum DefectListBuilder::done takes when item_len is 0: the lengths of
\* the custom descriptors
RECURSIVE CustomDescriptorBytes(_)
CustomDescriptorBytes(items) ==
    IF items = <<>> THEN 0
    ELSE (IF Head(items).kind = "CustomDescriptor" THEN Head(items).size
          ELSE 0)
         + CustomDescriptorBytes(Tail(items))

\* DefectListBuilder::done
DefectListBuilder_done(pb, items) ==
    LET mixed == \E i \in 1..(Len(items) - 1) :
                    items[i].kind # items[i + 1].kind
        item_len == IF items = <<>> THEN 0
                    ELSE IF items[1].kind = "CustomDescriptor" THEN 0
                    ELSE items[1].size
        total_len == IF item_len = 0 THEN CustomDescriptorBytes(items)
                     ELSE item_len * Len(items)
        defect_list_length_bits == IF pb.longlist THEN 32 ELSE 16
        e == bitfield_bound_check(total_len, 64, defect_list_length_bits)
    IN IF mixed
       THEN [pb |-> pb,
             r |-> Rejected(BadArgument("Cannot mix descriptor types"))]
       ELSE IF e.kind # "Ok" THEN [pb |-> pb, r |-> Rejected(e)]
       ELSE [pb |-> [pb EXCEPT
                       !.header_buffer.defect_list_length = total_len,
                       !.defect_list = items],
             r |-> Accepted]

\* ParameterBuilder::done followed by FormatUnitCommand::issue, for a
\* command whose other setters were left at FormatUnitCommand::new
ParameterBuilder_done_issue(pb, format_data, pf, o) ==
    LET longlist == IF pb.longlist THEN 1 ELSE 0
        header == pb.header_buffer
        e == bitfield_bound_check(header.defect_list_length, 32, 16)
        data_buffer_len ==
            (IF longlist = 0 THEN SHORT_PARAMETER_LIST_HEADER_LENGTH
             ELSE LONG_PARAMETER_LIST_HEADER_LENGTH)
            + (IF header.initialization_pattern = 1
               THEN InitializationPatternDescriptorHeaderSize
                    + pb.initialization_pattern_length
               ELSE 0)
            + DefectListBytes(pb.defect_list)
        fields == [format_protection_information |-> 0,
                   defect_list_format |-> 0,
                   fast_format |-> 0,
                   format_data |-> format_data,
                   longlist |-> longlist]
    IN IF format_data = 0
       THEN Dispatched(pf,
               [direction |-> "ToDevice", cdb_len |-> 6,
                data_size |-> 0, data_len |-> 0],
               fields, o)
       ELSE IF longlist = 0 /\ e.kind # "Ok" THEN Rejected(e)
       ELSE Dispatched(pf,
               [direction |-> "ToDevice", cdb_len |-> 6,
                data_size |-> data_buffer_len,
                data_len |-> data_buffer_len],
               [defect_list_length |->
                    IF longlist = 0 THEN as_u16(header.defect_list_length)
                    ELSE header.defect_list_length,
                defect_list_bytes |-> DefectListBytes(pb.defect_list)]
               @@ fields,
               o)

\* ---- unmap.rs -----------------------------------------------------------
UNMAP_OPERATION_CODE == 66
UnmapParameterHeaderSize == 8
UnmapBlockDescriptorSize == 16

\* UnmapCommand::new; descriptors is data_buffer.len()
UnmapCommand_new ==
    [group_number |-> 0,
     command_buffer |-> [operation_code |-> UNMAP_OPERATION_CODE,
                         anchor |-> 0,
                         group_number |-> 0,
                         parameter_list_length |-> 0,
                         control |-> 0],
     descriptors |-> 0,
     unmap_data_length |-> 0,
     unmap_block_descriptor_data_length |-> 0]

\* UnmapCommand::anchor
UnmapCommand_anchor(u, anchor) == [u EXCEPT !.command_buffer.anchor = anchor]

\* UnmapCommand::group_number
UnmapCommand_group_number(u, group_number) ==
    [u EXCEPT !.group_number = group_number]

\* UnmapCommand::control
UnmapCommand_control(u, control) ==
    [u EXCEPT !.command_buffer.control = control]

\* total_size() of FlexibleStruct<UnmapParameterHeader, UnmapBlockDescriptor>
UnmapCommand_total_size(descriptors) ==
    UnmapParameterHeaderSize + descriptors * UnmapBlockDescriptorSize

\* ParameterBuilder::done of unmap.rs, after n calls of
\* add_block_descriptor
UnmapParameterBuilder_done(u, n) ==
    LET list_size == UnmapCommand_total_size(n)
        e == bitfield_bound_check(list_size, 64, 16)
    IN IF e.kind # "Ok" THEN [u |-> u, r |-> Rejected(e)]
       ELSE [u |-> [u EXCEPT
                      !.command_buffer.parameter_list_length =
                          as_u16(list_size),
                      !.descriptors = n,
                      !.unmap_data_length = as_u16(list_size - 2),
                      !.unmap_block_descriptor_data_length =
                          as_u16(list_size - UnmapParameterHeaderSize)],
             r |-> Accepted]

\* UnmapCommand::issue
UnmapCommand_issue(u, pf, o) ==
    LET e == bitfield_bound_check(u.group_number, 8, 5)
    IN IF e.kind # "Ok" THEN Rejected(e)
       ELSE Dispatched(pf,
               [direction |-> "ToDevice",
                cdb_len |-> 10,
                data_size |-> UnmapCommand_total_size(u.descriptors),
                data_len |-> UnmapCommand_total_size(u.descriptors)],
               u.command_buffer,
               o)

\* ---- security_protocol_out.rs ------------------------------------------
\* SecurityProtocolOutCommand::issue that dispatches before the multiple
\* of 512 test
SecurityProtocolOutCommand_issue_late_check(inc_512, data_len, pf, o) ==
    LET transfer_length == IF inc_512 = 0 THEN data_len ELSE data_len \div 512
        e == bitfield_bound_check(transfer_length, 64, 32)
        d == Dispatched(pf,
               [direction |-> "ToDevice",
                cdb_len |-> 12,
                data_size |-> data_len,
                data_len |-> data_len],
               [inc_512 |-> inc_512, transfer_length |-> transfer_length],
               o)
    IN IF e.kind # "Ok" THEN Rejected(e)
       ELSE IF inc_512 = 1 /\ data_len % 512 # 0
       THEN [d EXCEPT !.outcome =
                BadArgument("parameter length is not a multiple of 512")]
       ELSE d

\* SecurityProtocolOutCommand::issue
SecurityProtocolOutCommand_issue(inc_512, data_len, pf, o) ==
    LET transfer_length == IF inc_512 = 0 THEN data_len ELSE data_len \div 512
        e == bitfield_bound_check(transfer_length, 64, 32)
    IN IF e.kind # "Ok" THEN Rejected(e)
       ELSE IF inc_512 = 1 /\ data_len % 512 # 0
       THEN Rejected(BadArgument("parameter length is not a multiple of 512"))
       ELSE Dispatched(pf,
               [direction |-> "ToDevice",
                cdb_len |-> 12,
                data_size |-> data_len,
                data_len |-> data_len],
               [inc_512 |-> inc_512, transfer_length |-> transfer_length],
               o)

\* ---- test_unit_ready.rs -------------------------------------------------
\* TestUnitReadyCommand::issue
TestUnitReadyCommand_issue(control, pf, o) ==
    Dispatched(pf,
        [direction |-> "None", cdb_len |-> 6, data_size |-> 0, data_len |-> 0],
        [operation_code |-> 0, control |-> control],
        o)

\* ---- command/mod.rs: Command::data_size ----------------------------------
\* size_of::<AnyType>(), AnyType = [u8; 0]
AnyTypeSize == 0

\* Command::data_size as the trait supplies it when a command does not
\* override it: size_of::<Self::DataBuffer>() as u32
Command_data_size(data_buffer_size) == data_buffer_size

\* ---- persistent_reserve_out.rs -----------------------------------------
BasicParameterHeaderSize == 24
RegisterAndMoveParameterHeaderSize == 24

\* BasicParameterData::done: the bytes left in the parent's data_buffer
BasicParameterData_done(specify_initiator_ports, transport_id_len) ==
    BasicParameterHeaderSize
      + (IF specify_initiator_ports THEN 4 + transport_id_len ELSE 0)

\* RegisterAndMoveParameterData::done
RegisterAndMoveParameterData_done(transport_id_len) ==
    RegisterAndMoveParameterHeaderSize + transport_id_len

\* PersistentReserveOutCommand::issue with ThisCommand of
\* persistent_reserve_out.rs; data_len is self.data_buffer.len()
PersistentReserveOutCommand_issue(p, pf, o) ==
    LET e == FirstError(<<bitfield_bound_check(p.service_action, 8, 5),
                          bitfield_bound_check(p.reservation_scope, 8, 4),
                          bitfield_bound_check(p.reservation_type, 8, 4),
                          bitfield_bound_check(p.data_len, 64, 32)>>)
    IN IF e.kind # "Ok" THEN Rejected(e)
       ELSE Dispatched(pf,
               [direction |-> "FromDevice",
                cdb_len |-> 10,
                data_size |-> Command_data_size(AnyTypeSize),
                data_len |-> p.data_len],
               [service_action |-> p.service_action,
                reservation_scope |-> p.reservation_scope,
                reservation_type |-> p.reservation_type,
                parameter_list_length |-> p.data_len],
               o)

\* ---- stream_control.rs -------------------------------------------------
StreamControlDataBufferSize == 8

\* StreamControlCommand::issue with ThisCommand of stream_control.rs
StreamControlCommand_issue(s, pf, o) ==
    LET e == bitfield_bound_check(s.stream_control, 8, 2)
    IN IF e.kind # "Ok" THEN Rejected(e)
       ELSE Dispatched(pf,
               [direction |-> "None",
                cdb_len |-> 16,
                data_size |-> StreamControlDataBufferSize,
                data_len |-> StreamControlDataBufferSize],
               [stream_control |-> s.stream_control,
                stream_identifier |-> s.stream_identifier,
                control |-> s.control],
               o)

\* ---- response decoders -------------------------------------------------
\* A device answer is described by the number of bytes it lies in and by
\* the values its length fields decode to. A decoder returns
\* [kind, arithmetic, fault, items]: kind is "Ok" or "Panic", arithmetic
\* is "exact", "overflow" (panic) or "wrapped", fault tells an index out of
\* range.

\* how the build treats an integer overflow: overflow checks on (panic) or
\* off (two's complement wrap)
Builds == {"debug", "release"}

usize_min(a, b) == IF a < b THEN a ELSE b

SliceFault == 0 - 1

\* &bytes[from..to] of a slice of len bytes: the length of the sub-slice,
\* SliceFault when an index is out of range
Slice(len, from, to) ==
    IF len < 0 \/ from < 0 \/ to < 0 THEN SliceFault
    ELSE IF from <= to /\ to <= len THEN to - from
    ELSE SliceFault

\* get_array::<N>: the bytes copied into the array and the bytes left
get_array(N, len) ==
    LET min_len == usize_min(N, len)
    IN [taken |-> Slice(len, 0, min_len), left |-> Slice(len, min_len, len)]

Decoded(items) ==
    [kind |-> "Ok", arithmetic |-> "exact", fault |-> FALSE, items |-> items]

\* the panic of an arithmetic operation that overflowed
DecodePanic ==
    [kind |-> "Panic", arithmetic |-> "overflow", fault |-> FALSE, items |-> 0]

DecodeFault ==
    [kind |-> "Panic", arithmetic |-> "exact", fault |-> TRUE, items |-> 0]

\* ---- get_lba_status.rs -------------------------------------------------
GetLbaStatusDescriptorSize == 16
SizeOfU32 == 4

\* ThisCommand::process_result of get_lba_status.rs after both error
\* checks passed; data_length is data.length(). When
\* parameter_data_length < 4 the subtraction overflows: a panic with
\* overflow checks, otherwise a value of at least 2^64 - 4, whose quotient
\* by 16 exceeds every data.length()
GetLbaStatus_process_result(parameter_data_length, data_length, build) ==
    IF parameter_data_length < SizeOfU32
    THEN IF build = "debug" THEN DecodePanic
         ELSE LET taken == Slice(data_length, 0, data_length)
              IN IF taken = SliceFault THEN DecodeFault
                 ELSE [Decoded(taken) EXCEPT !.arithmetic = "wrapped"]
    ELSE LET descriptors == (parameter_data_length - SizeOfU32)
                          \div GetLbaStatusDescriptorSize
             taken == Slice(data_length, 0, usize_min(descriptors, data_length))
         IN IF taken = SliceFault THEN DecodeFault ELSE Decoded(taken)

\* ---- persistent_reserve_in.rs ------------------------------------------
ReadFullsstatusHeaderSize == 8
ReadFullsstatusDescriptorHeaderSize == 24

\* the while loop of ReadFullStatusData::from_bytes; adl is the value the
\* descriptor headers decode additional_descriptor_length to
RECURSIVE ReadFullStatusData_descriptors(_, _, _)
ReadFullStatusData_descriptors(bytes, adl, n) ==
    IF bytes = 0 THEN Decoded(n)
    ELSE LET g == get_array(ReadFullsstatusDescriptorHeaderSize, bytes)
             additional_descriptor_length == usize_min(adl, g.left)
             transportid == Slice(g.left, 0, additional_descriptor_length)
             rest == Slice(g.left, additional_descriptor_length, g.left)
         IN IF g.taken = SliceFault \/ g.left = SliceFault
               \/ transportid = SliceFault \/ rest = SliceFault
            THEN DecodeFault
            ELSE ReadFullStatusData_descriptors(rest, adl, n + 1)

\* ReadFullStatusData::from_bytes
ReadFullStatusData_from_bytes(len, adl) ==
    LET g == get_array(ReadFullsstatusHeaderSize, len)
    IN IF g.taken = SliceFault \/ g.left = SliceFault THEN DecodeFault
       ELSE ReadFullStatusData_descriptors(g.left, adl, 0)

\* ---- report_supported_operation_codes.rs -------------------------------
AllCommandsParameterDataHeaderSize == 4
CommandDescriptorHeaderSize == 8
CommandTimeoutsDescriptorSize == 12
Limb == 65536

\* the while loop of process_result for reporting_options 0; ctdp is the
\* value the descriptors decode command_timeouts_descriptor_present to
RECURSIVE AllCommands_descriptors(_, _, _)
AllCommands_descriptors(left, ctdp, n) ==
    IF left = 0 THEN Decoded(n)
    ELSE LET g == get_array(CommandDescriptorHeaderSize, left)
             t == IF ctdp # 0
                  THEN get_array(CommandTimeoutsDescriptorSize, g.left)
                  ELSE [taken |-> 0, left |-> g.left]
         IN IF g.taken = SliceFault \/ g.left = SliceFault
               \/ t.taken = SliceFault \/ t.left = SliceFault
            THEN DecodeFault
            ELSE AllCommands_descriptors(t.left, ctdp, n + 1)

\* ThisCommand::process_result of report_supported_operation_codes.rs for
\* reporting_options 0, after both error checks passed; the u32
\* command_data_length is <<high, low>> in 16-bit limbs
ReportSupportedOperationCodes_process_result(len, command_data_length, ctdp, build) ==
    LET g == get_array(AllCommandsParameterDataHeaderSize, len)
        bound == IF command_data_length[1] > 0 THEN g.left
                 ELSE usize_min(command_data_length[2], g.left)
        left == Slice(g.left, 0, bound)
        d == AllCommands_descriptors(left, ctdp, 0)
        \* header.command_data_length() + size_of::<Header>() as u32
        low == command_data_length[2] + AllCommandsParameterDataHeaderSize
        high == command_data_length[1] + low \div Limb
    IN IF g.taken = SliceFault \/ g.left = SliceFault \/ left = SliceFault
       THEN DecodeFault
       ELSE IF d.kind # "Ok" THEN d
       ELSE IF high >= Limb
       THEN IF build = "debug" THEN DecodePanic
            ELSE [d EXCEPT !.arithmetic = "wrapped"]
       ELSE d

\* ---- write_and_verify.rs -------------------------------------------------
\* WriteAndVerifyCommand::error_check; tags tells that one of the expected
\* tags or the mask is not zero. `%` and `/` by logical_block_size panic
\* when it is zero
WriteAndVerifyCommand_error_check(w, logical_block_address_bits, transfer_length_bits, expect_tag) ==
    LET e == FirstError(<<
               bitfield_bound_check(w.group_number, 8, 5),
               bitfield_bound_check(w.write_protect, 8, 3),
               bitfield_bound_check(w.byte_check, 8, 2),
               bitfield_bound_check(w.logical_block_address, 64,
                                    logical_block_address_bits)>>)
    IN IF e.kind # "Ok" THEN e
       ELSE IF w.logical_block_size = 0 THEN [kind |-> "Panic"]
       ELSE IF w.data_len % w.logical_block_size # 0
       THEN BadArgument("parameter length should be a multiple of logical block size")
       ELSE IF (w.data_len \div w.logical_block_size)
                  \div Pow2(transfer_length_bits % 64) # 0
       THEN [kind |-> "ArgumentOutOfBounds",
             max |-> Pow2(transfer_length_bits) * w.logical_block_size,
             given |-> w.data_len]
       ELSE IF ~expect_tag /\ w.tags
       THEN BadArgument("expected tags and mask are not allowed here")
       ELSE [kind |-> "Ok"]

\* WriteAndVerifyCommand::issue_10
WriteAndVerifyCommand_issue_10(w, pf, o) ==
    LET e == WriteAndVerifyCommand_error_check(w, 32, 16, FALSE)
    IN IF e.kind = "Panic" THEN Panicked
       ELSE IF e.kind # "Ok" THEN Rejected(e)
       ELSE Dispatched(pf,
               [direction |-> "ToDevice",
                cdb_len |-> 10,
                data_size |-> w.data_len,
                data_len |-> w.data_len],
               [write_protect |-> w.write_protect,
                byte_check |-> w.byte_check,
                logical_block_address |-> w.logical_block_address,
                group_number |-> w.group_number,
                transfer_length |->
                    as_u16(w.data_len \div w.logical_block_size)],
               o)

\* ---- log_sense.rs ------------------------------------------------------
\* LogSenseCommand::issue_flex::<B, E> with ThisCommand of log_sense.rs;
\* size_B and size_E are size_of::<B>() and size_of::<E>(). The division
\* by size_of::<E>() panics for a zero-sized E, the subtraction overflows
\* for a B of more than u16::MAX bytes
LogSenseCommand_issue_flex(l, size_B, size_E, element_length, pf, o) ==
    LET max_element == (U16_MAX - size_B) \div size_E
        e == FirstError(<<bitfield_bound_check(l.page_control, 8, 2),
                          bitfield_bound_check(l.page_code, 8, 6)>>)
        data_size == size_B + element_length * size_E
    IN IF size_B > U16_MAX \/ size_E = 0 THEN Panicked
       ELSE IF element_length > max_element
       THEN Rejected([kind |-> "ArgumentOutOfBounds",
                      max |-> max_element, given |-> element_length])
       ELSE IF e.kind # "Ok" THEN Rejected(e)
       ELSE Dispatched(pf,
               [direction |-> "FromDevice",
                cdb_len |-> 10,
                data_size |-> data_size,
                data_len |-> data_size],
               [page_control |-> l.page_control,
                page_code |-> l.page_code,
                allocation_length |->
                    IF data_size > U16_MAX THEN U16_MAX ELSE data_size],
               o)

\* ---- builders: state machine -------------------------------------------
\* the answers of platform and device explored behind a builder
BuilderOuts ==
    {[ok |-> TRUE, written_back |-> TRUE, status |-> GOOD,
      sense_written |-> 0, sense |-> "", residual |-> 0],
     [ok |-> FALSE, written_back |-> FALSE, status |-> GOOD,
      sense_written |-> 0, sense |-> "", residual |-> 0],
     [ok |-> TRUE, written_back |-> TRUE, status |-> CHECK_CONDITION,
      sense_written |-> SenseWritten, sense |-> "sense_a", residual |-> 0]}

SetResult(r) ==
    /\ outcome' = r.outcome
    /\ calls' = r.calls
    /\ cmd' = r.cmd
    /\ cdb' = r.cdb
    /\ hdr' = r.hdr
    /\ env' = r.env
    /\ trace' = r.trace
    /\ packed' = IF "packed" \in DOMAIN r THEN r.packed ELSE None

IdleBuild ==
    /\ san = None
    /\ req = None
    /\ cdb = None
    /\ packed = None

InitBuild ==
    /\ platform \in {"linux", "windows"}
    /\ cmd = None
    /\ out = None
    /\ hdr = None
    /\ env = None
    /\ trace = <<>>
    /\ outcome = None
    /\ calls = 0
    /\ timeout = Duration_from_millis(SG_DEFAULT_TIMEOUT)
    /\ san = None
    /\ req = None
    /\ cdb = None
    /\ packed = None

\* Scsi::sanitize()
SanitizeNew ==
    /\ san' = SanitizeCommand_new
    /\ req' = [op |-> "sanitize"]
    /\ SetResult(Rejected(None))
    /\ out' = None
    /\ UNCHANGED <<platform, timeout>>
    /\ UNCHANGED nonBuildVars

SanitizeServiceAction ==
    /\ san # None
    /\ \E value \in {Overwrite, BlockErase} :
          /\ san' = SanitizeCommand_service_action(san, value)
          /\ req' = [op |-> "service_action", value |-> value]
    /\ SetResult(Rejected(None))
    /\ out' = None
    /\ UNCHANGED <<platform, timeout>>
    /\ UNCHANGED nonBuildVars

SanitizeParameterDone ==
    /\ san # None
    /\ \E test \in {0, 4}, overwrite_count \in {31, 32},
          pattern_len \in {1, 65531, 65532, 65536} :
          LET d == OverwriteParameterListBuilder_done(san, test, overwrite_count,
                                                      pattern_len)
          IN /\ san' = d.san
             /\ req' = [op |-> "done", test |-> test,
                         overwrite_count |-> overwrite_count,
                         pattern_len |-> pattern_len]
             /\ SetResult(d.r)
    /\ out' = None
    /\ UNCHANGED <<platform, timeout>>
    /\ UNCHANGED nonBuildVars

SanitizeIssue ==
    /\ san # None
    /\ \E o \in BuilderOuts :
          LET d == SanitizeCommand_issue(san, platform, o)
          IN /\ san' = d.san
             /\ req' = [op |-> "sanitize_issue",
                         total_size |-> SanitizeCommand_total_size(san)]
             /\ SetResult(d.r)
             /\ out' = o
    /\ UNCHANGED <<platform, timeout>>
    /\ UNCHANGED nonBuildVars

AtaIssue12 ==
    /\ \E features \in {255, 256}, lba \in {16777215, 16777216},
          count \in {<<"None">>, <<"Some", 512>>, <<"Some", 513>>},
          data_len \in {512, 66048},
          dir \in {"ToDevice", "FromDevice"}, o \in BuilderOuts :
          /\ req' = [op |-> "ata_issue_12", features |-> features, lba |-> lba,
                      count |-> count, data_len |-> data_len]
          /\ SetResult(AtaPassThroughCommand_issue_12(features, lba, count,
                                                      data_len, dir, platform, o))
          /\ out' = o
    /\ san' = None
    /\ UNCHANGED <<platform, timeout>>
    /\ UNCHANGED nonBuildVars

ReadIssue10 ==
    /\ \E r \in [read_protect : {7, 8}, group_number : {31, 32},
                  logical_block_address : {256},
                  transfer_length : {8, 65536},
                  logical_block_size : {512}, dld : BOOLEAN, tag : {0, 1}],
          o \in BuilderOuts :
          /\ req' = [op |-> "read_issue_10", r |-> r]
          /\ SetResult(ReadCommand_issue_10(r, platform, o))
          /\ out' = o
    /\ san' = None
    /\ UNCHANGED <<platform, timeout>>
    /\ UNCHANGED nonBuildVars

SecurityProtocolOutIssue ==
    /\ \E inc_512 \in {0, 1}, data_len \in {0, 512, 513}, o \in BuilderOuts :
          /\ req' = [op |-> "security_protocol_out_issue", inc_512 |-> inc_512,
                      data_len |-> data_len]
          /\ SetResult(SecurityProtocolOutCommand_issue(inc_512, data_len,
                                                        platform, o))
          /\ out' = o
    /\ san' = None
    /\ UNCHANGED <<platform, timeout>>
    /\ UNCHANGED nonBuildVars

FormatUnitIssue ==
    /\ \E f \in [format_protection_information : {3, 4},
                  defect_list_format : {7},
                  fast_format : {3, 4},
                  format_data : {0, 1},
                  longlist : {0, 1},
                  initialization_pattern : {0, 1},
                  initialization_pattern_length : {4},
                  defect_list_length : {8, 65536}],
          o \in BuilderOuts :
          /\ req' = [op |-> "format_unit_issue", f |-> f]
          /\ SetResult(FormatUnitCommand_issue(f, platform, o))
          /\ out' = o
    /\ san' = None
    /\ UNCHANGED <<platform, timeout>>
    /\ UNCHANGED nonBuildVars

\* Scsi::set_timeout
SetTimeout ==
    /\ \E d \in Durations :
          /\ timeout' = d
          /\ req' = [op |-> "set_timeout", timeout |-> d]
    /\ SetResult(Rejected(None))
    /\ out' = None
    /\ UNCHANGED <<platform, san>>
    /\ UNCHANGED nonBuildVars

TestUnitReadyIssue ==
    /\ \E control \in {0},
          o \in Outs([direction |-> "None", cdb_len |-> 6,
                      data_size |-> 0, data_len |-> 0]) :
          /\ req' = [op |-> "test_unit_ready_issue", control |-> control]
          /\ SetResult(TestUnitReadyCommand_issue(control, platform, o))
          /\ out' = o
    /\ san' = None
    /\ UNCHANGED <<platform, timeout>>
    /\ UNCHANGED nonBuildVars

NextTimeout ==
    \/ SetTimeout
    \/ TestUnitReadyIssue

\* the read requests explored behind the variants of READ
ReadRequests ==
    [read_protect : {7}, group_number : {31, 32},
     logical_block_address : {256},
     transfer_length : {8, 65536},
     logical_block_size : {512}, dld : BOOLEAN, tag : {0, 1}]

ReadIssue12 ==
    /\ \E r \in ReadRequests, o \in BuilderOuts :
          /\ req' = [op |-> "read_issue_12", r |-> r]
          /\ SetResult(ReadCommand_issue_12(r, platform, o))
          /\ out' = o
    /\ san' = None
    /\ UNCHANGED <<platform, timeout>>
    /\ UNCHANGED nonBuildVars

ReadIssue16 ==
    /\ \E r \in ReadRequests, o \in BuilderOuts :
          /\ req' = [op |-> "read_issue_16", r |-> r]
          /\ SetResult(ReadCommand_issue_16(r, platform, o))
          /\ out' = o
    /\ san' = None
    /\ UNCHANGED <<platform, timeout>>
    /\ UNCHANGED nonBuildVars

\* the MODE SELECT requests explored
ModeSelectRequests ==
    [page_format : BOOLEAN, revert_to_defaults : BOOLEAN,
     saved_pages : {FALSE}, data_len : {4, 256, 65536}]

ModeSelectIssue6 ==
    /\ \E m \in ModeSelectRequests, o \in BuilderOuts :
          /\ req' = [op |-> "mode_select_issue_6", m |-> m]
          /\ SetResult(ModeSelectCommand_issue_6(m, platform, o))
          /\ out' = o
    /\ san' = None
    /\ UNCHANGED <<platform, timeout>>
    /\ UNCHANGED nonBuildVars

ModeSelectIssue10 ==
    /\ \E m \in ModeSelectRequests, o \in BuilderOuts :
          /\ req' = [op |-> "mode_select_issue_10", m |-> m]
          /\ SetResult(ModeSelectCommand_issue_10(m, platform, o))
          /\ out' = o
    /\ san' = None
    /\ UNCHANGED <<platform, timeout>>
    /\ UNCHANGED nonBuildVars

ReadDefectDataIssue10 ==
    /\ \E d \in [request_primary_defect_list : {TRUE},
                  request_grown_defect_list : BOOLEAN,
                  defect_list_format : {3, 8},
                  address_descriptor_index : {0, 1},
                  descriptor_length : {8191, 8192}],
          o \in BuilderOuts :
          /\ req' = [op |-> "read_defect_data_issue_10", d |-> d]
          /\ SetResult(ReadDefectDataCommand_issue_10(d, platform, o))
          /\ out' = o
    /\ san' = None
    /\ UNCHANGED <<platform, timeout>>
    /\ UNCHANGED nonBuildVars

NextVariant ==
    \/ ReadIssue10
    \/ ReadIssue12
    \/ ReadIssue16
    \/ ModeSelectIssue6
    \/ ModeSelectIssue10
    \/ ReadDefectDataIssue10

\* the READ(10) requests whose bytes are explored; bool fields are 0 | 1
PackedReadRequests ==
    [read_protect : {0, 5}, group_number : {0},
     logical_block_address : {0, 256, 16909060},
     transfer_length : {0, 8},
     disable_page_out : {0, 1}, force_unit_access : {0},
     rebuild_assist_recovery_control : {0},
     control : {0, 129},
     logical_block_size : {512}, dld : {FALSE}, tag : {0}]

ReadIssue10Bytes ==
    /\ \E r \in PackedReadRequests, o \in BuilderOuts :
          /\ req' = [op |-> "read_issue_10_bytes", r |-> r]
          /\ SetResult(ReadCommand_issue_10_bytes(r, platform, o))
          /\ out' = o
    /\ san' = None
    /\ UNCHANGED <<platform, timeout>>
    /\ UNCHANGED nonBuildVars

NextPack ==
    \/ ReadIssue10Bytes

\* OverwriteParameterListBuilder::done with values at the documented bounds
SanitizeParameterDoneAtBounds ==
    /\ san # None
    /\ \E test \in {1, 2, 3, 4}, overwrite_count \in {31, 32},
          pattern_len \in {65534, 65535, 65536} :
          LET d == OverwriteParameterListBuilder_done(san, test, overwrite_count,
                                                      pattern_len)
          IN /\ san' = d.san
             /\ req' = [op |-> "done_at_bounds", test |-> test,
                         overwrite_count |-> overwrite_count,
                         pattern_len |-> pattern_len]
             /\ SetResult(d.r)
    /\ out' = None
    /\ UNCHANGED <<platform, timeout>>
    /\ UNCHANGED nonBuildVars

ReadBufferIssue10 ==
    /\ \E b \in [mode_specific : {7, 8}, mode : {31},
                  buffer_offset : {16777214, 16777215, 16777216},
                  allocation_length : {16777214, 16777215, 16777216}],
          o \in BuilderOuts :
          /\ req' = [op |-> "read_buffer_issue_10", b |-> b]
          /\ SetResult(ReadBufferCommand_issue_10(b, platform, o))
          /\ out' = o
    /\ san' = None
    /\ UNCHANGED <<platform, timeout>>
    /\ UNCHANGED nonBuildVars

NextBounds ==
    \/ SanitizeNew
    \/ SanitizeParameterDoneAtBounds
    \/ ReadBufferIssue10

\* size_of::<RecordType>() as the layout tests take it
SizeOf ==
    /\ \E i \in 1..Len(RecordLayouts) :
          /\ req' = [op |-> "size_of", record |-> RecordLayouts[i]]
          /\ SetResult([packed |-> into_bytes(Record_new(RecordLayouts[i]))]
                       @@ Rejected(None))
    /\ out' = None
    /\ san' = None
    /\ UNCHANGED <<platform, timeout>>
    /\ UNCHANGED nonBuildVars

NextRecords ==
    \/ SizeOf

\* persistent_reserve_out().parameter()...done().done().issue(); the
\* parameter list is left empty, built by basic_parameter() or built by
\* register_and_move_parameter()
PersistentReserveOutPayloads ==
    {[builder |-> "none", specify_initiator_ports |-> FALSE,
      transport_id_len |-> 0]}
    \cup [builder : {"basic"}, specify_initiator_ports : BOOLEAN,
          transport_id_len : {0, 24}]
    \cup [builder : {"register_and_move"}, specify_initiator_ports : {FALSE},
          transport_id_len : {0, 24}]

PersistentReserveOut_data_len(b) ==
    CASE b.builder = "none" -> 0
      [] b.builder = "basic" ->
            BasicParameterData_done(b.specify_initiator_ports,
                                    b.transport_id_len)
      [] b.builder = "register_and_move" ->
            RegisterAndMoveParameterData_done(b.transport_id_len)

PersistentReserveOutIssue ==
    /\ \E b \in PersistentReserveOutPayloads,
          service_action \in {0, 7, 32}, reservation_scope \in {0, 16},
          o \in BuilderOuts :
          LET p == [service_action |-> service_action,
                    reservation_scope |-> reservation_scope,
                    reservation_type |-> 1,
                    data_len |-> PersistentReserveOut_data_len(b)]
          IN /\ req' = [op |-> "persistent_reserve_out_issue", b |-> b,
                         p |-> p, data_len |-> p.data_len]
             /\ SetResult(PersistentReserveOutCommand_issue(p, platform, o))
             /\ out' = o
    /\ san' = None
    /\ UNCHANGED <<platform, timeout>>
    /\ UNCHANGED nonBuildVars

StreamControlIssue ==
    /\ \E s \in [stream_control : {0, 1, 4}, stream_identifier : {0, 7},
                  control : {0}],
          o \in BuilderOuts :
          /\ req' = [op |-> "stream_control_issue", s |-> s]
          /\ SetResult(StreamControlCommand_issue(s, platform, o))
          /\ out' = o
    /\ san' = None
    /\ UNCHANGED <<platform, timeout>>
    /\ UNCHANGED nonBuildVars

NextPayload ==
    \/ PersistentReserveOutIssue
    \/ SecurityProtocolOutIssue
    \/ StreamControlIssue

\* format_unit().parameter(): the builder under construction is kept in
\* san
FormatUnitParameter ==
    /\ san' = ParameterBuilder_new
    /\ req' = [op |-> "format_unit_parameter"]
    /\ SetResult(Accepted)
    /\ out' = None
    /\ UNCHANGED <<platform, timeout>>
    /\ UNCHANGED nonBuildVars

HeaderSettings ==
    [protection_fields_usage : {0, 8}, initialization_pattern : {0, 1},
     protection_interval_exponent : {0}]

\* long_parameter_list_header()...done()
FormatUnitLongHeaderDone ==
    /\ san # None
    /\ \E h \in HeaderSettings :
          LET d == LongParameterListHeaderBuilder_done(san, h)
          IN /\ san' = d.pb
             /\ req' = [op |-> "long_parameter_list_header_done", h |-> h]
             /\ SetResult(d.r)
    /\ out' = None
    /\ UNCHANGED <<platform, timeout>>
    /\ UNCHANGED nonBuildVars

\* short_parameter_list_header()...done()
FormatUnitShortHeaderDone ==
    /\ san # None
    /\ \E h \in HeaderSettings :
          LET d == ShortParameterListHeaderBuilder_done(san, h)
          IN /\ san' = d.pb
             /\ req' = [op |-> "short_parameter_list_header_done", h |-> h]
             /\ SetResult(d.r)
    /\ out' = None
    /\ UNCHANGED <<platform, timeout>>
    /\ UNCHANGED nonBuildVars

\* initialization_pattern_descriptor()...done()
FormatUnitInitializationPatternDone ==
    /\ san # None
    /\ \E pattern_len \in {4, 65536} :
          LET d == InitializationPatternDescriptorBuilder_done(san, pattern_len)
          IN /\ san' = d.pb
             /\ req' = [op |-> "initialization_pattern_descriptor_done",
                         pattern_len |-> pattern_len]
             /\ SetResult(d.r)
    /\ out' = None
    /\ UNCHANGED <<platform, timeout>>
    /\ UNCHANGED nonBuildVars

ShortBlockItem ==
    [kind |-> "ShortBlockFormatAddressDescriptor",
     size |-> ShortBlockFormatAddressDescriptorSize]

LongBlockItem ==
    [kind |-> "LongBlockFormatAddressDescriptor",
     size |-> LongBlockFormatAddressDescriptorSize]

CustomItem == [kind |-> "CustomDescriptor", size |-> 3]

DefectLists ==
    {<<>>, <<ShortBlockItem>>, <<ShortBlockItem, ShortBlockItem>>,
     <<LongBlockItem>>, <<ShortBlockItem, LongBlockItem>>, <<CustomItem>>}

\* defect_list().add_..()...done()
FormatUnitDefectListDone ==
    /\ san # None
    /\ \E items \in DefectLists :
          LET d == DefectListBuilder_done(san, items)
          IN /\ san' = d.pb
             /\ req' = [op |-> "defect_list_done", items |-> items]
             /\ SetResult(d.r)
    /\ out' = None
    /\ UNCHANGED <<platform, timeout>>
    /\ UNCHANGED nonBuildVars

\* format_data(..) ... parameter() ... done()?.issue()
FormatUnitParameterDoneIssue ==
    /\ san # None
    /\ \E format_data \in {0, 1}, o \in BuilderOuts :
          /\ req' = [op |-> "format_unit_parameter_issue",
                      format_data |-> format_data, pb |-> san]
          /\ SetResult(ParameterBuilder_done_issue(san, format_data,
                                                   platform, o))
          /\ out' = o
    /\ san' = None
    /\ UNCHANGED <<platform, timeout>>
    /\ UNCHANGED nonBuildVars

NextFormat ==
    \/ FormatUnitParameter
    \/ FormatUnitLongHeaderDone
    \/ FormatUnitShortHeaderDone
    \/ FormatUnitInitializationPatternDone
    \/ FormatUnitDefectListDone
    \/ FormatUnitParameterDoneIssue

\* scsi.unmap(): the builder under construction is kept in san
UnmapNew ==
    /\ san' = UnmapCommand_new
    /\ req' = [op |-> "unmap"]
    /\ SetResult(Accepted)
    /\ out' = None
    /\ UNCHANGED <<platform, timeout>>
    /\ UNCHANGED nonBuildVars

UnmapAnchor ==
    /\ san # None
    /\ \E anchor \in {0, 1} :
          /\ san' = UnmapCommand_anchor(san, anchor)
          /\ req' = [op |-> "anchor", value |-> anchor]
    /\ SetResult(Accepted)
    /\ out' = None
    /\ UNCHANGED <<platform, timeout>>
    /\ UNCHANGED nonBuildVars

UnmapGroupNumber ==
    /\ san # None
    /\ \E group_number \in {0, 5, 31, 32} :
          /\ san' = UnmapCommand_group_number(san, group_number)
          /\ req' = [op |-> "group_number", value |-> group_number]
    /\ SetResult(Accepted)
    /\ out' = None
    /\ UNCHANGED <<platform, timeout>>
    /\ UNCHANGED nonBuildVars

UnmapControl ==
    /\ san # None
    /\ \E control \in {0, 129} :
          /\ san' = UnmapCommand_control(san, control)
          /\ req' = [op |-> "control", value |-> control]
    /\ SetResult(Accepted)
    /\ out' = None
    /\ UNCHANGED <<platform, timeout>>
    /\ UNCHANGED nonBuildVars

\* parameter().add_block_descriptor(..) n times, then done()
UnmapParameterDone ==
    /\ san # None
    /\ \E n \in {0, 2, 4096} :
          LET d == UnmapParameterBuilder_done(san, n)
          IN /\ san' = d.u
             /\ req' = [op |-> "unmap_parameter_done", n |-> n]
             /\ SetResult(d.r)
    /\ out' = None
    /\ UNCHANGED <<platform, timeout>>
    /\ UNCHANGED nonBuildVars

UnmapIssue ==
    /\ san # None
    /\ \E o \in BuilderOuts :
          /\ req' = [op |-> "unmap_issue", u |-> san]
          /\ SetResult(UnmapCommand_issue(san, platform, o))
          /\ out' = o
    /\ san' = san
    /\ UNCHANGED <<platform, timeout>>
    /\ UNCHANGED nonBuildVars

NextUnmap ==
    \/ UnmapNew
    \/ UnmapAnchor
    \/ UnmapGroupNumber
    \/ UnmapControl
    \/ UnmapParameterDone
    \/ UnmapIssue

\* process_result of GET LBA STATUS on an answer of the device
GetLbaStatusProcessResult ==
    /\ \E parameter_data_length \in {0, 3, 4, 20, 36},
          data_length \in {0, 1, 2}, build \in Builds :
          /\ req' = [op |-> "get_lba_status_process_result",
                      parameter_data_length |-> parameter_data_length,
                      data_length |-> data_length, build |-> build]
          /\ SetResult([Accepted EXCEPT !.outcome =
                GetLbaStatus_process_result(parameter_data_length,
                                            data_length, build)])
    /\ out' = None
    /\ san' = None
    /\ UNCHANGED <<platform, timeout>>
    /\ UNCHANGED nonBuildVars

\* ReadFullStatusData::from_bytes on an answer of the device
ReadFullStatusFromBytes ==
    /\ \E len \in {0, 7, 8, 9, 32, 40, 57, 80}, adl \in {0, 8, 100} :
          /\ req' = [op |-> "read_full_status_from_bytes", len |-> len,
                      additional_descriptor_length |-> adl]
          /\ SetResult([Accepted EXCEPT !.outcome =
                ReadFullStatusData_from_bytes(len, adl)])
    /\ out' = None
    /\ san' = None
    /\ UNCHANGED <<platform, timeout>>
    /\ UNCHANGED nonBuildVars

\* process_result of REPORT SUPPORTED OPERATION CODES (all commands) on an
\* answer of the device
ReportSupportedOperationCodesProcessResult ==
    /\ \E len \in {0, 3, 4, 12, 24, 28},
          command_data_length \in {<<0, 0>>, <<0, 8>>, <<0, 20>>,
                                   <<65535, 65531>>, <<65535, 65535>>},
          ctdp \in {0, 1}, build \in Builds :
          /\ req' = [op |-> "report_supported_operation_codes_process_result",
                      len |-> len,
                      command_data_length |-> command_data_length,
                      ctdp |-> ctdp, build |-> build]
          /\ SetResult([Accepted EXCEPT !.outcome =
                ReportSupportedOperationCodes_process_result(len,
                    command_data_length, ctdp, build)])
    /\ out' = None
    /\ san' = None
    /\ UNCHANGED <<platform, timeout>>
    /\ UNCHANGED nonBuildVars

NextDecode ==
    \/ GetLbaStatusProcessResult
    \/ ReadFullStatusFromBytes
    \/ ReportSupportedOperationCodesProcessResult

WriteAndVerifyIssue10 ==
    /\ \E w \in [group_number : {0, 32}, write_protect : {0},
                  byte_check : {0, 4}, logical_block_address : {0, 256},
                  logical_block_size : {0, 512}, data_len : {0, 512, 513},
                  tags : BOOLEAN],
          o \in BuilderOuts :
          /\ req' = [op |-> "write_and_verify_issue_10", w |-> w]
          /\ SetResult(WriteAndVerifyCommand_issue_10(w, platform, o))
          /\ out' = o
    /\ san' = None
    /\ UNCHANGED <<platform, timeout>>
    /\ UNCHANGED nonBuildVars

\* log_sense()...issue_generic::<B, E>(element_length)
LogSenseIssueFlex ==
    /\ \E l \in [page_control : {0, 4}, page_code : {0, 63}],
          size_B \in {0, 4}, size_E \in {0, 1, 4},
          element_length \in {0, 2, 16383, 65535}, o \in BuilderOuts :
          /\ req' = [op |-> "log_sense_issue_flex", l |-> l,
                      size_B |-> size_B, size_E |-> size_E,
                      element_length |-> element_length]
          /\ SetResult(LogSenseCommand_issue_flex(l, size_B, size_E,
                                                  element_length, platform, o))
          /\ out' = o
    /\ san' = None
    /\ UNCHANGED <<platform, timeout>>
    /\ UNCHANGED nonBuildVars

NextAbort ==
    \/ AtaIssue12
    \/ WriteAndVerifyIssue10
    \/ LogSenseIssueFlex

NextBuild ==
    \/ SanitizeNew
    \/ SanitizeServiceAction
    \/ SanitizeParameterDone
    \/ SanitizeIssue
    \/ AtaIssue12
    \/ ReadIssue10
    \/ SecurityProtocolOutIssue
    \/ FormatUnitIssue

\* ------------------------------------------------------------------------
\* FlexibleStruct: state machine
\* ------------------------------------------------------------------------
Self == [length |-> length, capacity |-> capacity, mem |-> mem]

\* what uninitialised memory of n bytes may hold: every element-sized slot
\* holds zeroes or the bytes of some earlier value
FreshBytes(n) ==
    {Flatten(f) : f \in [1..(n \div ElemSize) -> Elements \cup {Zeroes(ElemSize)}]}

\* number of uninitialised bytes a growth to new_capacity brings in
GrowBytes(new_capacity) ==
    IF new_capacity <= capacity THEN 0 ELSE ElemSize * (new_capacity - capacity)

Store(s) ==
    /\ length' = s.length
    /\ capacity' = s.capacity
    /\ mem' = s.mem

InitFlex ==
    /\ endian \in {"little", "big"}
    /\ needsDrop \in BOOLEAN
    /\ \E body \in Bodies, cap \in 0..1 :
          LET s == with_body_capacity(body, cap)
          IN /\ length = s.length
             /\ capacity = s.capacity
             /\ mem = s.mem
             /\ lastBody = body
    /\ alloc = "live"
    /\ ret = <<"unit">>
    /\ dropped = <<>>
    /\ lastOp = "new"
    /\ held = <<>>
    /\ onlyPushed = TRUE
    /\ pushPop = None

\* a new record is constructed once the previous one is gone
New ==
    /\ UNCHANGED endian
    /\ alloc = "freed"
    /\ \E nd \in BOOLEAN, body \in Bodies, cap \in 0..MaxCap :
          /\ needsDrop' = nd
          /\ Store(with_body_capacity(body, cap))
          /\ lastBody' = body
    /\ alloc' = "live"
    /\ ret' = <<"unit">>
    /\ dropped' = <<>>
    /\ lastOp' = "new"
    /\ UNCHANGED nonFlexVars
    /\ held' = <<>>
    /\ onlyPushed' = TRUE
    /\ pushPop' = None

SetBody ==
    /\ UNCHANGED endian
    /\ alloc = "live"
    /\ \E value \in Bodies :
          /\ Store(set_body(Self, value))
          /\ lastBody' = value
    /\ dropped' = <<>>
    /\ lastOp' = "set_body"
    /\ UNCHANGED nonFlexVars
    /\ ret' = <<"unit">>
    /\ pushPop' = None
    /\ UNCHANGED <<needsDrop, alloc, held, onlyPushed>>

Push ==
    /\ UNCHANGED endian
    /\ alloc = "live"
    /\ push_new_capacity(Self) <= MaxCap
    /\ \E value \in Elements :
       \E fresh \in FreshBytes(GrowBytes(push_new_capacity(Self))) :
          /\ Store(push(Self, value, fresh))
          /\ held' = Append(held, value)
          /\ pushPop' = [value |-> value, before |-> length, popped |-> FALSE]
    /\ dropped' = <<>>
    /\ lastOp' = "push"
    /\ UNCHANGED nonFlexVars
    /\ ret' = <<"unit">>
    /\ UNCHANGED <<needsDrop, alloc, lastBody, onlyPushed>>

Pop ==
    /\ UNCHANGED endian
    /\ alloc = "live"
    /\ LET r == pop(Self)
       IN /\ Store(r.s)
          /\ ret' = r.ret
          /\ held' = IF r.ret[1] = "Some" /\ held # <<>>
                     THEN SubSeq(held, 1, Len(held) - 1) ELSE held
    /\ dropped' = <<>>
    /\ lastOp' = "pop"
    /\ pushPop' = IF lastOp = "push"
                  THEN [pushPop EXCEPT !.popped = TRUE]
                  ELSE None
    /\ UNCHANGED nonFlexVars
    /\ onlyPushed' = FALSE
    /\ UNCHANGED <<needsDrop, alloc, lastBody>>

Clear ==
    /\ UNCHANGED endian
    /\ alloc = "live"
    /\ LET c == clear(Self, needsDrop)
       IN /\ Store(c.s)
          /\ dropped' = c.dropped
    /\ held' = <<>>
    /\ lastOp' = "clear"
    /\ pushPop' = None
    /\ UNCHANGED nonFlexVars
    /\ ret' = <<"unit">>
    /\ onlyPushed' = FALSE
    /\ UNCHANGED <<needsDrop, alloc, lastBody>>

\* set_length exists for Element: Copy only
SetLength ==
    /\ UNCHANGED endian
    /\ alloc = "live"
    /\ ~needsDrop
    /\ \E n \in 0..MaxCap :
       \E fresh \in FreshBytes(GrowBytes(n)) :
          /\ Store(set_length(Self, n, fresh))
          /\ held' = elements_as_slice(set_length(Self, n, fresh))
    /\ dropped' = <<>>
    /\ lastOp' = "set_length"
    /\ pushPop' = None
    /\ UNCHANGED nonFlexVars
    /\ ret' = <<"unit">>
    /\ onlyPushed' = FALSE
    /\ UNCHANGED <<needsDrop, alloc, lastBody>>

\* `x = x.clone()` for plain-data elements (the builders' data buffers)
Clone ==
    /\ UNCHANGED endian
    /\ alloc = "live"
    /\ ~needsDrop
    /\ Store(clone(Self))
    /\ dropped' = <<>>
    /\ lastOp' = "clone"
    /\ pushPop' = None
    /\ UNCHANGED nonFlexVars
    /\ ret' = <<"unit">>
    /\ onlyPushed' = FALSE
    /\ UNCHANGED <<needsDrop, alloc, held, lastBody>>

Drop ==
    /\ UNCHANGED endian
    /\ alloc = "live"
    /\ LET d == drop(Self, needsDrop)
       IN /\ Store(d.s)
          /\ dropped' = d.dropped
    /\ alloc' = "freed"
    /\ held' = <<>>
    /\ lastOp' = "drop"
    /\ pushPop' = None
    /\ UNCHANGED nonFlexVars
    /\ ret' = <<"unit">>
    /\ UNCHANGED <<needsDrop, lastBody, onlyPushed>>

NextFlex ==
    \/ New
    \/ SetBody
    \/ Push
    \/ Pop
    \/ Clear
    \/ SetLength
    \/ Clone
    \/ Drop

\* ------------------------------------------------------------------------
\* FlexibleStruct<Header, u32> with Header { count: u16 }.  An integer value
\* is written as its base-256 digits, most significant first; the record
\* stores it as the target lays it out in memory.
\* ------------------------------------------------------------------------

\* the in-memory representation of an integer on a target of byte order e
to_ne_bytes(v, e) == IF e = "little" THEN Reverse(v) ELSE v

\* Header { count }
Header(count, e) == to_ne_bytes(count, e)

\* the u32 values pushed: 0xAABBCCDD and 0x11223344
U32Values == {<<170, 187, 204, 221>>, <<17, 34, 51, 68>>}

\* the values of count explored: 0 and 0x0102
Counts == {<<0, 0>>, <<1, 2>>}

InitLayout ==
    /\ endian \in {"little", "big"}
    /\ needsDrop = FALSE
    /\ \E count \in Counts, cap \in 0..1 :
          LET s == with_body_capacity(Header(count, endian), cap)
          IN /\ length = s.length
             /\ capacity = s.capacity
             /\ mem = s.mem
             /\ lastBody = count
    /\ alloc = "live"
    /\ ret = <<"unit">>
    /\ dropped = <<>>
    /\ lastOp = "new"
    /\ held = <<>>
    /\ onlyPushed = TRUE
    /\ pushPop = None

\* push(value) of a u32
LayoutPush ==
    /\ UNCHANGED endian
    /\ alloc = "live"
    /\ push_new_capacity(Self) <= MaxCap
    /\ \E value \in U32Values :
       \E fresh \in FreshBytes(GrowBytes(push_new_capacity(Self))) :
          /\ Store(push(Self, to_ne_bytes(value, endian), fresh))
          /\ held' = Append(held, value)
          /\ pushPop' = [value |-> to_ne_bytes(value, endian),
                         before |-> length, popped |-> FALSE]
    /\ dropped' = <<>>
    /\ lastOp' = "push"
    /\ UNCHANGED nonFlexVars
    /\ ret' = <<"unit">>
    /\ UNCHANGED <<needsDrop, alloc, lastBody, onlyPushed>>

NextLayout ==
    \/ LayoutPush
    \/ Pop

IdleFlex ==
    /\ endian = "little"
    /\ needsDrop = FALSE
    /\ length = 0
    /\ capacity = 0
    /\ mem = <<>>
    /\ alloc = "freed"
    /\ ret = <<"unit">>
    /\ dropped = <<>>
    /\ lastOp = "none"
    /\ held = <<>>
    /\ lastBody = <<>>
    /\ onlyPushed = FALSE
    /\ pushPop = None

InitSpecBc == InitBc /\ IdleFlex /\ IdleIssue /\ IdleBuild

SpecBc == InitSpecBc /\ [][NextBc]_vars

InitSpecFlex == InitFlex /\ IdleBc /\ IdleIssue /\ IdleBuild

SpecFlex == InitSpecFlex /\ [][NextFlex]_vars

InitSpecLayout == InitLayout /\ IdleBc /\ IdleIssue /\ IdleBuild

SpecLayout == InitSpecLayout /\ [][NextLayout]_vars

InitSpecIssue == InitIssue /\ IdleFlex /\ IdleBc /\ IdleBuild

SpecIssue == InitSpecIssue /\ [][NextIssue]_vars

InitSpecBuild == InitBuild /\ IdleFlex /\ IdleBc

SpecBuild == InitSpecBuild /\ [][NextBuild]_vars

InitSpecTimeout == InitBuild /\ IdleFlex /\ IdleBc

SpecTimeout == InitSpecTimeout /\ [][NextTimeout]_vars

InitSpecVariant == InitBuild /\ IdleFlex /\ IdleBc

SpecVariant == InitSpecVariant /\ [][NextVariant]_vars

InitSpecPack == InitBuild /\ IdleFlex /\ IdleBc

SpecPack == InitSpecPack /\ [][NextPack]_vars

InitSpecRecords == InitBuild /\ IdleFlex /\ IdleBc

SpecRecords == InitSpecRecords /\ [][NextRecords]_vars

InitSpecBounds == InitBuild /\ IdleFlex /\ IdleBc

SpecBounds == InitSpecBounds /\ [][NextBounds]_vars

InitSpecPayload == InitBuild /\ IdleFlex /\ IdleBc

SpecPayload == InitSpecPayload /\ [][NextPayload]_vars

InitSpecFormat == InitBuild /\ IdleFlex /\ IdleBc

SpecFormat == InitSpecFormat /\ [][NextFormat]_vars

InitSpecUnmap == InitBuild /\ IdleFlex /\ IdleBc

SpecUnmap == InitSpecUnmap /\ [][NextUnmap]_vars

InitSpecDecode == InitBuild /\ IdleFlex /\ IdleBc

SpecDecode == InitSpecDecode /\ [][NextDecode]_vars

InitSpecAbort == InitBuild /\ IdleFlex /\ IdleBc

SpecAbort == InitSpecAbort /\ [][NextAbort]_vars

\* ------------------------------------------------------------------------
\* Properties of FlexibleStruct
\* ------------------------------------------------------------------------
TagElements(es) == [i \in 1..Len(es) |-> <<"element", es[i]>>]

\* C1: after any sequence of push, pop, clear, set_body, set_length and
\* clone starting from construction, length <= capacity (and the allocation
\* is as large as the capacity says while it is live).
C1_LengthWithinCapacity ==
    /\ length <= capacity
    /\ alloc = "live" => Len(mem) = HeaderSize + ElemSize * capacity

\* a push has just filled a record that grew twice
C1_Witness ==
    /\ lastOp = "push"
    /\ capacity = 3
    /\ length = capacity

\* C2: while the record has only been pushed to (and had its body set),
\* as_bytes() is the body last written followed by the pushed elements'
\* bytes in push order, reallocation included.
C2_PushPreservesBytes ==
    (alloc = "live" /\ onlyPushed) =>
        as_bytes(Self) = lastBody \o Flatten(held)

\* two different elements pushed across a reallocation
C2_Witness ==
    /\ lastOp = "push"
    /\ onlyPushed
    /\ length = 2
    /\ capacity = 3
    /\ held[1] # held[2]

\* C9 as claimed: clear() on resource-owning elements tears them down once
\* each in index order, element 0 first, with the allocation still live.
C9_ClearIndexOrder ==
    [][(lastOp' = "clear" /\ needsDrop) =>
          (dropped' = TagElements(held) /\ alloc' = "live")]_vars

\* C9 amended: clear() on resource-owning elements tears each element down
\* exactly once in reverse index order (last element first, element 0
\* last), with the allocation still live.
C9_ClearReverseOrder ==
    [][(lastOp' = "clear" /\ needsDrop) =>
          (dropped' = Reverse(TagElements(held)) /\ alloc' = "live" /\ length' = 0)]_vars

\* a clear has torn down at least two different elements
C9_Witness ==
    /\ lastOp = "clear"
    /\ needsDrop
    /\ Len(dropped) >= 2
    /\ dropped[1] # dropped[2]

\* C10: dropping the record tears down every element it still holds exactly
\* once, then the body exactly once, then frees the allocation; elements
\* already handed back by pop or torn down by clear are not torn down again.
C10_DropTearsDownLive ==
    [][(lastOp' = "drop" /\ alloc = "live") =>
          /\ alloc' = "freed"
          /\ dropped' =
                (IF needsDrop THEN Reverse(TagElements(held)) ELSE <<>>)
                \o << <<"body", lastBody>>, <<"dealloc">> >>]_vars

\* a record dropped while it held two elements
C10_Witness ==
    /\ lastOp = "drop"
    /\ needsDrop
    /\ Len(dropped) = 4

\* ------------------------------------------------------------------------
\* Properties of bitfield_bound_check
\* ------------------------------------------------------------------------

\* C7: the bound checker succeeds exactly when value < 2^width, and when it
\* fails the maximum it reports is 2^width - 1 (and the value it reports is
\* the one supplied).
C7_BoundCheckTotality ==
    bcRes.kind # "pending" =>
        /\ (bcRes.kind = "Ok") <=> (bcNum < Pow2(bcBits))
        /\ bcRes.kind # "Ok" =>
              /\ bcRes.kind = "ArgumentOutOfBounds"
              /\ bcRes.max = Pow2(bcBits) - 1
              /\ bcRes.given = bcNum

\* 256 against width 8 has failed with max 255
C7_Witness ==
    /\ bcNum = 256
    /\ bcBits = 8
    /\ bcRes.kind = "ArgumentOutOfBounds"
    /\ bcRes.max = 255

\* ------------------------------------------------------------------------
\* Properties of Scsi::issue and process_result
\* ------------------------------------------------------------------------
Position(seq, x) ==
    IF \E i \in 1..Len(seq) : seq[i] = x
    THEN CHOOSE i \in 1..Len(seq) : seq[i] = x
    ELSE 0

\* C3: the transport-level check runs first, the device-level check only
\* after the transport check passed, the decoder only after both passed,
\* and a failed platform call is reported as a transport error, never as a
\* device error.
C3_CheckOrder ==
    trace # <<>> =>
        /\ trace[1] = "check_ioctl_error"
        /\ Position(trace, "check_common_error") # 0 =>
              /\ Position(trace, "check_common_error") = 2
              /\ out.ok
        /\ Position(trace, "decode") # 0 =>
              /\ Position(trace, "decode") = 3
              /\ out.ok
              /\ out.status = GOOD
              /\ out.sense_written = 0
        /\ ~out.ok =>
              /\ outcome.kind = "TransportError"
              /\ trace = <<"check_ioctl_error">>

\* the platform call failed while the device also reported a bad status
\* with sense data
C3_Witness ==
    /\ trace # <<>>
    /\ ~out.ok
    /\ out.status = CHECK_CONDITION
    /\ out.sense_written > 0
    /\ outcome.kind = "TransportError"

\* C4: platform call succeeded, device status not good, sense data
\* present: the result is a device error that carries that status and
\* that sense data.
C4_DeviceErrorCarriesSense ==
    (env # None /\ out.ok /\ out.status # GOOD /\ out.sense_written > 0) =>
        /\ outcome.kind = "DeviceError"
        /\ outcome.status = out.status
        /\ outcome.sense = <<"Some", out.sense>>

\* the windows transport has returned a device error carrying the sense data
C4_Witness ==
    /\ platform = "windows"
    /\ out # None
    /\ out.ok
    /\ out.status = CHECK_CONDITION
    /\ out.sense = "sense_b"
    /\ outcome.kind = "DeviceError"

\* C6 as claimed: in both transport variants the header carries no payload
\* pointer when data_size() is 0, whatever data() returned.
C6_NoPayloadPointerWhenEmpty ==
    (hdr # None /\ cmd.data_size = 0) => hdr.data = "null"

\* ------------------------------------------------------------------------
\* Properties of the command builders
\* ------------------------------------------------------------------------
ArgumentErrors == {"ArgumentOutOfBounds", "BadArgument"}

\* C5: whenever a builder's issue (or a parameter builder's done) returns
\* an argument error, no platform call was made for that request and no
\* command or header reached the transport.
C5_ArgumentErrorBeforeDispatch ==
    outcome.kind \in ArgumentErrors =>
        /\ calls = 0
        /\ cmd = None
        /\ hdr = None

\* SECURITY PROTOCOL OUT with inc_512 and a length that is not a multiple
\* of 512 has been rejected
C5_Witness ==
    /\ req # None
    /\ req.op = "security_protocol_out_issue"
    /\ outcome.kind = "BadArgument"
    /\ calls = 0

\* the value a builder call meant to put into each field it packs
Intended ==
    CASE req.op = "sanitize_issue" ->
            [service_action |-> san.service_action,
             parameter_list_length |-> req.total_size]
      [] req.op = "ata_issue_12" ->
            [features |-> req.features,
             count |-> (IF req.count[1] = "Some" THEN req.count[2]
                        ELSE req.data_len) \div 512,
             lba |-> req.lba]
      [] req.op = "read_issue_10" ->
            [read_protect |-> req.r.read_protect,
             logical_block_address |-> req.r.logical_block_address,
             group_number |-> req.r.group_number,
             transfer_length |-> req.r.transfer_length]
      [] req.op = "format_unit_issue" ->
            IF req.f.format_data = 0
            THEN [format_protection_information |->
                      req.f.format_protection_information,
                  defect_list_format |-> req.f.defect_list_format,
                  fast_format |-> req.f.fast_format,
                  format_data |-> req.f.format_data,
                  longlist |-> req.f.longlist]
            ELSE [format_protection_information |->
                      req.f.format_protection_information,
                  defect_list_format |-> req.f.defect_list_format,
                  fast_format |-> req.f.fast_format,
                  format_data |-> req.f.format_data,
                  longlist |-> req.f.longlist,
                  defect_list_length |-> req.f.defect_list_length]
      [] req.op = "security_protocol_out_issue" ->
            [inc_512 |-> req.inc_512,
             transfer_length |-> IF req.inc_512 = 0 THEN req.data_len
                                 ELSE req.data_len \div 512]

\* C8 as claimed: every value a builder packs into a fixed-width field was
\* bound-checked first, so each field of a dispatched command buffer holds
\* the value supplied or derived, never a truncation of it.
C8_NoTruncatedField ==
    cdb # None => cdb = Intended

\* ------------------------------------------------------------------------
\* Further properties of FlexibleStruct
\* ------------------------------------------------------------------------

\* C11: push(e) followed immediately by pop() returns Some(e) and leaves
\* length at the value it had before the push.
C11_PushPopInverse ==
    (pushPop # None /\ pushPop.popped) =>
        /\ ret = <<"Some", pushPop.value>>
        /\ length = pushPop.before

\* a push onto a non-empty record was followed at once by a pop
C11_Witness ==
    /\ pushPop # None
    /\ pushPop.popped
    /\ lastOp = "pop"
    /\ pushPop.before > 0

\* ------------------------------------------------------------------------
\* Further properties of Scsi::issue
\* ------------------------------------------------------------------------

\* number of times x occurs in seq
Count(seq, x) == Cardinality({i \in 1..Len(seq) : seq[i] = x})

C13_NoAbort ==
    outcome.kind # "Panic"

\* C14 as claimed: in both variants, when the device wrote no sense data
\* the envelope's sense length is 0 and its parsed sense record is none.
C14_NoSenseMeansNone ==
    (env # None /\ out.sense_written = 0) =>
        /\ env.transfered_sense_length = 0
        /\ env.sense_buffer = <<"None">>

\* C16: on linux the envelope's transferred byte count is the requested
\* length minus the residual the platform call reported.
C16_TransferredIsRequestedMinusResidual ==
    (platform = "linux" /\ env # None) =>
        env.transfered_data_length = cmd.data_size - out.residual

\* a linux transfer came back with a residual strictly between 0 and the
\* requested length
C16_Witness ==
    /\ platform = "linux"
    /\ env # None
    /\ out.residual > 0
    /\ out.residual < cmd.data_size
    /\ env.transfered_data_length = cmd.data_size - out.residual

\* C15: the timeout written to the header is the configured duration
\* clamped into the field, never wrapped: linux writes
\* min(milliseconds, 2^32 - 1); windows writes whole seconds clamped to
\* [1, 2^32 - 1].
C15_TimeoutClamped ==
    hdr # None =>
        IF platform = "linux"
        THEN LET m == as_millis(timeout)
             IN hdr.timeout = IF m[1] >= 65536 THEN U32_MAX ELSE m
        ELSE LET n == as_secs(timeout)
             IN hdr.TimeOutValue = IF n = <<0, 0>> THEN <<0, 1>>
                                   ELSE IF n[1] >= 65536 THEN U32_MAX
                                   ELSE n

\* a command went out on linux with a timeout of exactly 2^32
\* milliseconds, and the header holds 2^32 - 1
C15_Witness ==
    /\ hdr # None
    /\ platform = "linux"
    /\ as_millis(timeout) = <<65536, 0>>
    /\ hdr.timeout = U32_MAX

\* ------------------------------------------------------------------------
\* Further properties of the command builders
\* ------------------------------------------------------------------------

\* the last request asked a CDB variant for an option it has no field for
UnsupportedOption ==
    /\ req # None
    /\ CASE req.op \in {"read_issue_10", "read_issue_12"} ->
                req.r.dld \/ req.r.tag # 0
         [] req.op = "read_issue_16" -> req.r.tag # 0
         [] req.op = "mode_select_issue_10" -> req.m.revert_to_defaults
         [] req.op = "read_defect_data_issue_10" ->
                req.d.address_descriptor_index > 0
         [] OTHER -> FALSE

\* every value of the last request fits the field the chosen variant has
\* for it
ValuesInRange ==
    CASE req.op \in {"read_issue_10", "read_issue_12", "read_issue_16"} ->
            /\ req.r.read_protect < 8
            /\ req.r.group_number <
                   (IF req.op = "read_issue_16" THEN 64 ELSE 32)
            /\ req.r.transfer_length <
                   (IF req.op = "read_issue_10" THEN 65536 ELSE 2147483647)
      [] req.op \in {"mode_select_issue_6", "mode_select_issue_10"} ->
            req.m.data_len <
                (IF req.op = "mode_select_issue_6" THEN 256 ELSE 65536)
      [] req.op = "read_defect_data_issue_10" ->
            /\ req.d.defect_list_format < 8
            /\ 4 + req.d.descriptor_length
                     * get_defect_list_item_size(req.d)
                   <= 65535

C18_ScenarioBytes ==
    (/\ alloc = "live"
     /\ onlyPushed
     /\ lastBody = <<0, 0>>
     /\ held = << <<170, 187, 204, 221>>, <<17, 34, 51, 68>> >>) =>
        /\ total_size(Self) = 10
        /\ SubSeq(as_bytes(Self), 3, 6) = <<170, 187, 204, 221>>

\* C19: at every state of a live record total_size() is
\* size_of(header) + length * size_of(element), and as_bytes() is exactly
\* that many bytes, starting with the header as last written and followed
\* by the length valid elements.
C19_TotalSizeAndView ==
    alloc = "live" =>
        /\ total_size(Self) = HeaderSize + length * ElemSize
        /\ Len(as_bytes(Self)) = total_size(Self)
        /\ SubSeq(as_bytes(Self), 1, HeaderSize) = lastBody
        /\ as_bytes(Self) = SubSeq(mem, 1, HeaderSize + length * ElemSize)

\* a record holding one element in an allocation with room for three: the
\* view is shorter than the allocation
C19_Witness ==
    /\ alloc = "live"
    /\ lastOp = "pop"
    /\ length = 1
    /\ capacity = 3
    /\ Len(as_bytes(Self)) = HeaderSize + ElemSize

\* C20: pop() on a record of length 0 returns None and leaves length,
\* capacity, the header and every stored byte as they were.
C20_PopOnEmpty ==
    [][(lastOp' = "pop" /\ length = 0) =>
          /\ ret' = <<"None">>
          /\ length' = 0
          /\ capacity' = capacity
          /\ mem' = mem
          /\ alloc' = alloc]_vars

\* an empty record whose allocation still holds the bytes of an element
\* popped earlier has been popped again
C20_Witness ==
    /\ lastOp = "pop"
    /\ ret = <<"None">>
    /\ length = 0
    /\ capacity > 0
    /\ ReadAt(mem, HeaderSize, ElemSize) \in Elements

\* ------------------------------------------------------------------------
\* Bytes of the command buffers
\* ------------------------------------------------------------------------

\* C21: READ(10) built with logical_block_address 0x00000100,
\* transfer_length 0x0008 and every other field zero goes out as the ten
\* bytes 28 00 00 00 01 00 00 00 08 00.
C21_Read10Bytes ==
    (/\ req # None
     /\ req.op = "read_issue_10_bytes"
     /\ cdb # None
     /\ req.r.logical_block_address = 256
     /\ req.r.transfer_length = 8
     /\ req.r.read_protect = 0
     /\ req.r.group_number = 0
     /\ req.r.disable_page_out = 0
     /\ req.r.force_unit_access = 0
     /\ req.r.rebuild_assist_recovery_control = 0
     /\ req.r.control = 0) =>
        packed = <<40, 0, 0, 0, 1, 0, 0, 0, 8, 0>>

\* that READ(10) has been dispatched
C21_Witness ==
    /\ req # None
    /\ req.op = "read_issue_10_bytes"
    /\ cdb # None
    /\ calls = 1
    /\ req.r.logical_block_address = 256
    /\ req.r.transfer_length = 8
    /\ req.r.read_protect = 0
    /\ req.r.group_number = 0
    /\ req.r.disable_page_out = 0
    /\ req.r.rebuild_assist_recovery_control = 0
    /\ req.r.control = 0
    /\ packed = <<40, 0, 0, 0, 1, 0, 0, 0, 8, 0>>

\* ------------------------------------------------------------------------
\* Documented bounds of the setters
\* ------------------------------------------------------------------------

\* C22 as claimed: the bound a setter's comment states is the bound
\* enforced: done / issue accepts the values when each is less than its
\* documented bound and returns ArgumentOutOfBounds otherwise.
C22_DocumentedBoundsEnforced ==
    /\ (req # None /\ req.op = "done_at_bounds") =>
          IF /\ req.test < Documented_test
             /\ req.overwrite_count < Documented_overwrite_count
             /\ req.pattern_len < Documented_initialization_pattern_length
          THEN outcome.kind = "Ok"
          ELSE outcome.kind = "ArgumentOutOfBounds"
    /\ (req # None /\ req.op = "read_buffer_issue_10") =>
          IF /\ req.b.mode_specific < Documented_mode_specific
             /\ req.b.mode < Documented_mode
             /\ req.b.buffer_offset < Documented_buffer_offset
             /\ req.b.allocation_length < Documented_allocation_length
          THEN calls = 1
          ELSE outcome.kind = "ArgumentOutOfBounds" /\ calls = 0

\* ------------------------------------------------------------------------
\* Sizes of the #[bitfield] records
\* ------------------------------------------------------------------------

\* C23: for every record type the declared field widths sum to exactly
\* eight times the declared byte size, so size_of the record is the
\* declared size.
C23_WidthsSumToDeclaredSize ==
    (req # None /\ req.op = "size_of") =>
        /\ BitWidth(Record_new(req.record)) = 8 * req.record.declared
        /\ Len(packed) = req.record.declared

\* the 32-byte command buffer of READ(32) has been measured
C23_Witness ==
    /\ req # None
    /\ req.op = "size_of"
    /\ req.record.name = "read::CommandBuffer32"
    /\ Len(packed) = 32

\* ------------------------------------------------------------------------
\* Payload length and direction of the commands that carry data
\* ------------------------------------------------------------------------

\* C24 as claimed: for a dispatched command that sends a parameter list,
\* data_size() equals the byte length of the built payload and equals the
\* length the CDB declares (in the units of its length field).
C24_DataSizeIsPayloadLength ==
    /\ (req # None /\ req.op = "persistent_reserve_out_issue" /\ cdb # None) =>
          /\ cmd.data_size = req.data_len
          /\ cdb.parameter_list_length = req.data_len
    /\ (req # None /\ req.op = "security_protocol_out_issue" /\ cdb # None) =>
          /\ cmd.data_size = req.data_len
          /\ cdb.transfer_length * (IF cdb.inc_512 = 1 THEN 512 ELSE 1)
                = req.data_len

\* the flow of the payload of a builder: what it builds is sent, what it
\* asks for is received
PayloadFlow(op) ==
    CASE op = "persistent_reserve_out_issue" -> "ToDevice"
      [] op = "security_protocol_out_issue" -> "ToDevice"
      [] op = "stream_control_issue" -> "FromDevice"

\* C25 as claimed: a dispatched command that builds a payload or requests
\* a non-zero transfer has the direction of its payload's flow, ToDevice
\* when it sends a parameter list, FromDevice when it receives data, and
\* never None.
C25_DirectionMatchesFlow ==
    (/\ req # None
     /\ req.op \in {"persistent_reserve_out_issue",
                    "security_protocol_out_issue", "stream_control_issue"}
     /\ cdb # None
     /\ (cmd.data_len > 0 \/ cmd.data_size > 0)) =>
        cmd.direction = PayloadFlow(req.op)

\* ------------------------------------------------------------------------
\* FORMAT UNIT: the defect list length of the header
\* ------------------------------------------------------------------------

\* C26 as claimed: whatever the order in which the header, the
\* initialization pattern and the defect list sub-builders were completed,
\* the defect_list_length of the header that is sent equals the byte
\* length of the defect descriptors appended to the payload.
C26_DefectListLengthIsBytesSent ==
    (/\ req # None
     /\ req.op = "format_unit_parameter_issue"
     /\ cdb # None
     /\ cdb.format_data = 1) =>
        cdb.defect_list_length = cdb.defect_list_bytes

\* ------------------------------------------------------------------------
\* SANITIZE: the parameter list and the service action
\* ------------------------------------------------------------------------

\* C27 as claimed: a dispatched SANITIZE whose service action is not
\* Overwrite has parameter_list_length 0 in its CDB and data_size() 0; a
\* parameter list is sent only for the Overwrite service action.
C27_ParameterListOnlyForOverwrite ==
    (/\ req # None
     /\ req.op = "sanitize_issue"
     /\ cdb # None
     /\ cdb.service_action # Overwrite) =>
        /\ cdb.parameter_list_length = 0
        /\ cmd.data_size = 0

\* ------------------------------------------------------------------------
\* UNMAP: the values of the setters in the CDB
\* ------------------------------------------------------------------------

\* C28 as claimed: every value set through a setter and accepted by
\* validation is encoded in the corresponding field of the dispatched CDB;
\* for UNMAP: anchor, group_number and control of the builder are the
\* anchor, group_number and control of the CDB.
C28_SetterValuesEncoded ==
    (req # None /\ req.op = "unmap_issue" /\ cdb # None) =>
        /\ cdb.anchor = req.u.command_buffer.anchor
        /\ cdb.control = req.u.command_buffer.control
        /\ cdb.group_number = req.u.group_number

\* ------------------------------------------------------------------------
\* Response decoders on the data of the device
\* ------------------------------------------------------------------------

DecoderOps ==
    {"get_lba_status_process_result", "read_full_status_from_bytes",
     "report_supported_operation_codes_process_result"}

\* C29 as claimed: every response decoder is total on the data of the
\* device: for any length fields and any number of bytes it ends without
\* arithmetic underflow or overflow and without a slice out of range.
C29_DecodersTotal ==
    (req # None /\ req.op \in DecoderOps) =>
        /\ outcome.kind = "Ok"
        /\ outcome.arithmetic = "exact"
        /\ ~outcome.fault

\* get_array and the slices bounded by usize::min never leave their range
C29_NoSliceOutOfRange ==
    (req # None /\ req.op \in DecoderOps) => ~outcome.fault

\* the two decoders without unchecked arithmetic are total
C29_CheckedDecodersTotal ==
    (req # None /\ req.op = "read_full_status_from_bytes") =>
        /\ outcome.kind = "Ok"
        /\ outcome.arithmetic = "exact"

\* ------------------------------------------------------------------------
\* Builders on the input of the caller
\* ------------------------------------------------------------------------

\* C30 as claimed: no builder aborts on the input of its caller: for any
\* setter values (a logical_block_size of 0, a count or payload length
\* that is not a multiple of 512, a zero-sized element type) issue returns
\* a result or an argument error, never a panic.
C30_NoBuilderPanics ==
    (req # None /\ req.op \in {"ata_issue_12", "write_and_verify_issue_10",
                               "log_sense_issue_flex"}) =>
        outcome.kind # "Panic"

====
